---- MODULE Spec2Model ----
(***************************************************************************)
(* Telemetry ingestion (backend/mqtt_subscriber.py) and the device         *)
(* registry (dashboard/api/main.py) of the IoT waste platform, over the    *)
(* relational store they share: sensors, sensor_readings, alerts.          *)
(*                                                                         *)
(* Conventions                                                             *)
(*  - A Python str is a tuple of one-character strings.                    *)
(*  - An optional value (Python None, SQL NULL, a missing JSON key) is a   *)
(*    set with at most one element: {} is None, {v} is the value v.        *)
(*  - Percentages, degrees and kilograms are fixed-point tenths:           *)
(*    74.9 is 749, -0.3 is -3.                                             *)
(***************************************************************************)
EXTENDS Integers, Sequences, FiniteSets, TLC

VARIABLES sensors,    \* table sensors: a set of rows
          readings,   \* table sensor_readings: rows in insertion order
          alerts,     \* table alerts: rows in insertion order (alert_id = index)
          last,       \* the call just handled, until the service loop takes the next
          subs,       \* concurrent subscriber instances: where each is in its message
          alertSeen,  \* per alerts row: the rows its _create_alert call saw in its SELECT
          sessions,   \* _sessions of the API process: rows [token, expired]
          nextSensorId,  \* the next value of the serial column sensors.sensor_id
          calls,      \* concurrent API workers: where each is in its register call
          regSeen     \* per created device: the serial value when its call looked for the address

vars == <<sensors, readings, alerts, last, subs, alertSeen, sessions, nextSensorId,
          calls, regSeen>>

\* the state of the API that ingestion never touches
apiVars == <<sessions, nextSensorId, calls, regSeen>>

\* Upper bound on the rows of sensor_readings a behaviour stores.
MaxReadings == 2

-----------------------------------------------------------------------------
(* Strings *)

LowerCase == <<"a","b","c","d","e","f","g","h","i","j","k","l","m",
               "n","o","p","q","r","s","t","u","v","w","x","y","z">>
UpperCase == <<"A","B","C","D","E","F","G","H","I","J","K","L","M",
               "N","O","P","Q","R","S","T","U","V","W","X","Y","Z">>
Digits == <<"0","1","2","3","4","5","6","7","8","9">>
Whitespace == {" ", "\t", "\n", "\r"}

\* str.upper() on one character
UpperChar(c) ==
    IF \E i \in 1..Len(LowerCase) : LowerCase[i] = c
    THEN UpperCase[CHOOSE i \in 1..Len(LowerCase) : LowerCase[i] = c]
    ELSE c

\* str.upper()
Upper(s) == [i \in 1..Len(s) |-> UpperChar(s[i])]

\* str.strip(): drop leading and trailing whitespace
Strip(s) ==
    LET keep == {i \in 1..Len(s) : s[i] \notin Whitespace}
    IN  IF keep = {} THEN <<>>
        ELSE SubSeq(s, CHOOSE i \in keep : \A j \in keep : i <= j,
                       CHOOSE i \in keep : \A j \in keep : i >= j)

DigitValue(c) == (CHOOSE i \in 1..Len(Digits) : Digits[i] = c) - 1
IsDigit(c) == \E i \in 1..Len(Digits) : Digits[i] = c

RECURSIVE DigitsValue(_)
DigitsValue(s) ==
    IF Len(s) = 0 THEN 0
    ELSE 10 * DigitsValue(SubSeq(s, 1, Len(s) - 1)) + DigitValue(s[Len(s)])

\* int(x) of a decimal text: {} when int() raises (None, empty, a non-digit)
ParseInt(opt) ==
    IF opt = {} THEN {}
    ELSE LET s == Strip(CHOOSE x \in opt : TRUE)
         IN  IF Len(s) > 0 /\ \A i \in 1..Len(s) : IsDigit(s[i])
             THEN {DigitsValue(s)} ELSE {}

RECURSIVE ToStr(_)
\* str(n) of a non-negative integer
ToStr(n) == IF n < 10 THEN <<Digits[n + 1]>>
            ELSE ToStr(n \div 10) \o <<Digits[(n % 10) + 1]>>

-----------------------------------------------------------------------------
(* Optional values *)

None == {}
Some(v) == {v}
IsNone(o) == o = {}
The(o) == CHOOSE v \in o : TRUE

\* cursor.fetchone(): no row, or any one of the rows the query matches
FetchOne(rows) == IF rows = {} THEN {None} ELSE {Some(r) : r \in rows}

-----------------------------------------------------------------------------
(* Sample data *)

MacA == <<"A","A",":","B","B",":","C","C",":","D","D",":","E","E",":","0","1">>
MacC == <<"A","A",":","B","B",":","C","C",":","D","D",":","E","E",":","0","3">>
\* the form a device publishes MacA in: lower case, padded
MacALoose == <<" ","a","a",":","b","b",":","c","c",":","d","d",":","e","e",":","0","1"," ">>
\* well formed, bound to no device
MacU == <<"A","A",":","B","B",":","C","C",":","D","D",":","E","E",":","0","9">>

CodeA == <<"S","1">>
CodeB == <<"S","2">>
CodeC == <<"S","3">>
CodeU == <<"Z","Z">>

\* sensors rows present when ingestion starts: A and C are bound to a hardware
\* address, B is a device known by its code only (mac_address NULL).
SeedSensors ==
    { [sensor_id |-> 1, sensor_code |-> CodeA, mac_address |-> Some(MacA),
       bin_id |-> 1, weight_offset |-> Some(-3), status |-> "active",
       manufacturer |-> <<"a">>],
      [sensor_id |-> 2, sensor_code |-> CodeB, mac_address |-> None,
       bin_id |-> 2, weight_offset |-> None, status |-> "active",
       manufacturer |-> <<"b">>],
      [sensor_id |-> 3, sensor_code |-> CodeC, mac_address |-> Some(MacC),
       bin_id |-> 2, weight_offset |-> Some(0), status |-> "active",
       manufacturer |-> <<"c">>] }

\* One MQTT payload. kind: "object" (a JSON object), "notobject" (valid JSON
\* that is no object), "badjson". A field is None when its key is missing or
\* null; nulls names the keys that are present with the value null.
Msg(mac, code, bin, bcode, w, f, b, t) ==
    [kind |-> "object", nulls |-> {},
     mac_address |-> mac, sensor_code |-> code, bin_id |-> bin, bin_code |-> bcode,
     weight_kg |-> w, fill_level |-> f, battery_level |-> b, temperature_c |-> t]

EmptyMsg == Msg(None, None, None, None, None, None, None, None)

BinCode == <<"B","1">>

PayloadMacs == {None, Some(MacALoose), Some(MacC), Some(MacU)}
PayloadCodes == {None, Some(CodeB), Some(CodeU)}
PayloadBins == {None, Some(<<"1">>), Some(<<"2">>), Some(<<"9","9">>)}

\* payloads that vary who sends and what container is asserted
IdentityMsgs ==
    { Msg(mac, code, bin, None, Some(120), Some(900), None, None) :
        mac \in PayloadMacs, code \in PayloadCodes, bin \in PayloadBins }

\* <<fill_level, battery_level, temperature_c>>
Profiles ==
    { <<None, None, None>>,
      <<Some(749), None, None>>, <<Some(750), None, None>>,
      <<Some(899), None, None>>, <<Some(900), None, None>>,
      <<None, Some(199), None>>, <<None, Some(200), None>>,
      <<None, None, Some(450)>>, <<None, None, Some(451)>>,
      <<Some(900), Some(199), Some(451)>> }

\* payloads that vary the telemetry, sent by A for its own container
TelemetryMsgs ==
    { Msg(Some(MacALoose), None, Some(<<"1">>), Some(BinCode), None, p[1], p[2], p[3]) :
        p \in Profiles }

MalformedMsgs ==
    { [EmptyMsg EXCEPT !.kind = "badjson"],
      [EmptyMsg EXCEPT !.kind = "notobject"],
      [Msg(None, Some(CodeB), Some(<<"2">>), None, None, None, None, None)
          EXCEPT !.nulls = {"mac_address"}],
      Msg(Some(MacU), Some(CodeB), Some(<<"x">>), None, None, None, None, None),
      [Msg(Some(MacALoose), None, None, None, None, None, None, None)
          EXCEPT !.nulls = {"fill_level"}],
      \* a payload of A cut off in transit: its text is no JSON document
      [Msg(Some(MacALoose), None, Some(<<"1">>), Some(BinCode), None, Some(900), None, None)
          EXCEPT !.kind = "badjson"] }

\* a payload of C that asserts no container: low battery, high temperature
UnassertedMsgs ==
    { Msg(Some(MacC), None, None, Some(BinCode), None, Some(100), Some(199), Some(451)) }

Messages == IdentityMsgs \cup TelemetryMsgs \cup MalformedMsgs \cup UnassertedMsgs

-----------------------------------------------------------------------------
(* Ingestion: DatabaseManager and MQTTSubscriber.on_message *)

FillCritical == 900
FillHigh == 750
BatteryLow == 200
TempHigh == 450
DefaultFill == 0
DefaultBattery == 1000
DefaultTemp == 250

\* dict.get(key, default) of a payload field: the default only replaces a
\* missing key, a null comes back as None
GetOr(data, key, field, default) ==
    IF field # None THEN field
    ELSE IF key \in data.nulls THEN None ELSE Some(default)

\* data.get('mac_address', '').strip().upper(); None when .strip() raises
NormalizedMac(data) ==
    IF "mac_address" \in data.nulls THEN None
    ELSE IF data.mac_address = None THEN Some(<<>>)
    ELSE Some(Upper(Strip(The(data.mac_address))))

\* RowsByMac answered from the rows the process saw when it started
RowsByMacAtStart(mac) == {s \in SeedSensors : s.mac_address = Some(mac)}

\* SELECT ... FROM sensors WHERE mac_address = %s
RowsByMac(mac) == {s \in sensors : s.mac_address = Some(mac)}

\* SELECT ... FROM sensors WHERE sensor_code = %s (NULL matches nothing)
RowsByCode(code) == {s \in sensors : Some(s.sensor_code) = code}

\* float(row['weight_offset'] or 0.0)
OffsetOf(row) == IF row.weight_offset = None THEN 0 ELSE The(row.weight_offset)

\* Calibrate with the offset subtracted
CalibrateSubtracts(raw_weight, weight_offset) ==
    IF raw_weight # None /\ weight_offset # 0
    THEN Some(The(raw_weight) - weight_offset)
    ELSE raw_weight

\* the weight calibration of insert_sensor_reading
Calibrate(raw_weight, weight_offset) ==
    IF raw_weight # None /\ weight_offset # 0
    THEN Some(The(raw_weight) + weight_offset)
    ELSE raw_weight

\* ResolveDevice that keeps the payload's bin_id on a hardware-address match
ResolveDeviceKeepsPayloadBin(data, mac, macRow, codeRow) ==
    IF mac # <<>> /\ macRow # None
    THEN [sensor |-> macRow, via |-> "mac", bin_id |-> data.bin_id]
    ELSE [sensor |-> codeRow, via |-> IF codeRow = None THEN "none" ELSE "code",
          bin_id |-> data.bin_id]

\* ResolveDevice that takes the registry's bin_id on a device-code match too
ResolveDeviceOverridesOnCode(data, mac, macRow, codeRow) ==
    IF mac # <<>> /\ macRow # None
    THEN [sensor |-> macRow, via |-> "mac",
          bin_id |-> Some(ToStr(The(macRow).bin_id))]
    ELSE [sensor |-> codeRow, via |-> IF codeRow = None THEN "none" ELSE "code",
          bin_id |-> IF codeRow = None THEN data.bin_id
                     ELSE Some(ToStr(The(codeRow).bin_id))]

\* ResolveDevice that asks for the device code first
ResolveDeviceCodeFirst(data, mac, macRow, codeRow) ==
    IF codeRow # None
    THEN [sensor |-> codeRow, via |-> "code", bin_id |-> data.bin_id]
    ELSE IF mac # <<>> /\ macRow # None
    THEN [sensor |-> macRow, via |-> "mac",
          bin_id |-> Some(ToStr(The(macRow).bin_id))]
    ELSE [sensor |-> None, via |-> "none", bin_id |-> data.bin_id]

\* Steps 1 and 2 of insert_sensor_reading. macRow and codeRow are what the two
\* fetchone() calls return. Result: the device row (None: unknown device), how
\* it was found, and the bin_id of the working copy of the payload.
ResolveDevice(data, mac, macRow, codeRow) ==
    IF mac # <<>> /\ macRow # None
    THEN [sensor |-> macRow, via |-> "mac",
          bin_id |-> Some(ToStr(The(macRow).bin_id))]
    ELSE [sensor |-> codeRow, via |-> IF codeRow = None THEN "none" ELSE "code",
          bin_id |-> data.bin_id]

\* InsertSensorReading without the rollback: the row of an INSERT whose commit
\* raises stays visible
InsertSensorReadingKeepsRow(data, macRow, codeRow, dbFails) ==
    LET nmac == NormalizedMac(data)
        failed == [ok |-> FALSE, row |-> None]
    IN  IF nmac = None THEN failed
        ELSE
        LET res == ResolveDevice(data, The(nmac), macRow, codeRow)
        IN  IF res.sensor = None THEN failed
            ELSE
            LET sensor == The(res.sensor)
                bin == ParseInt(res.bin_id)
            IN  IF bin = None THEN failed
                ELSE [ok |-> TRUE,
                      row |-> Some([sensor_id |-> sensor.sensor_id,
                                    bin_id |-> The(bin),
                                    fill_level |-> data.fill_level,
                                    weight_kg |-> Calibrate(data.weight_kg, OffsetOf(sensor)),
                                    temperature_c |-> data.temperature_c,
                                    battery_level |-> data.battery_level])]

\* DatabaseManager.insert_sensor_reading: [ok, row]. dbFails: the INSERT or the
\* COMMIT raises. Every exception ends in rollback and False.
InsertSensorReading(data, macRow, codeRow, dbFails) ==
    LET nmac == NormalizedMac(data)
        failed == [ok |-> FALSE, row |-> None]
    IN  IF nmac = None THEN failed
        ELSE
        LET res == ResolveDevice(data, The(nmac), macRow, codeRow)
        IN  IF res.sensor = None THEN failed
            ELSE
            LET sensor == The(res.sensor)
                bin == ParseInt(res.bin_id)
            IN  IF bin = None \/ dbFails THEN failed
                ELSE [ok |-> TRUE,
                      row |-> Some([sensor_id |-> sensor.sensor_id,
                                    bin_id |-> The(bin),
                                    fill_level |-> data.fill_level,
                                    weight_kg |-> Calibrate(data.weight_kg, OffsetOf(sensor)),
                                    temperature_c |-> data.temperature_c,
                                    battery_level |-> data.battery_level])]

\* OpenAlertExists without the condition on status
OpenAlertExistsAnyStatus(al, bin_id, alert_type) ==
    \E i \in 1..Len(al) : al[i].bin_id = bin_id /\ al[i].alert_type = alert_type

\* OpenAlertExists that looks for status 'active', which no alert has
OpenAlertExistsWrongStatus(al, bin_id, alert_type) ==
    \E i \in 1..Len(al) :
        al[i].bin_id = bin_id /\ al[i].alert_type = alert_type /\ al[i].status = "active"

\* SELECT alert_id FROM alerts WHERE bin_id = .. AND alert_type = .. AND status = 'open'
OpenAlertExists(al, bin_id, alert_type) ==
    \E i \in 1..Len(al) :
        al[i].bin_id = bin_id /\ al[i].alert_type = alert_type /\ al[i].status = "open"

\* INSERT INTO alerts (bin_id, alert_type, severity, message, status) VALUES (.., 'open')
AlertRow(bin_id, rule) ==
    [bin_id |-> bin_id, alert_type |-> rule.alert_type,
     severity |-> rule.severity, message |-> rule.message, status |-> "open"]

\* CreateAlert without the check for an open alert
CreateAlertNoDedup(al, bin_id, rule, dbFails) ==
    IF dbFails THEN al
    ELSE Append(al, [bin_id |-> bin_id, alert_type |-> rule.alert_type,
                     severity |-> rule.severity, message |-> rule.message,
                     status |-> "open"])

\* CreateAlert that raises the open alert it finds to the new severity and text
CreateAlertEscalates(al, bin_id, rule, dbFails) ==
    IF dbFails THEN al
    ELSE IF \E i \in 1..Len(al) :
                al[i].bin_id = bin_id /\ al[i].alert_type = rule.alert_type
                /\ al[i].status = "open"
    THEN [i \in 1..Len(al) |->
            IF al[i].bin_id = bin_id /\ al[i].alert_type = rule.alert_type
               /\ al[i].status = "open"
            THEN [al[i] EXCEPT !.severity = rule.severity, !.message = rule.message]
            ELSE al[i]]
    ELSE Append(al, [bin_id |-> bin_id, alert_type |-> rule.alert_type,
                     severity |-> rule.severity, message |-> rule.message,
                     status |-> "open"])

\* DatabaseManager._create_alert on the alerts table al. dbFails: a statement
\* of this call raises (the call rolls back and returns).
CreateAlert(al, bin_id, rule, dbFails) ==
    IF dbFails THEN al
    ELSE IF OpenAlertExists(al, bin_id, rule.alert_type) THEN al
    ELSE Append(al, AlertRow(bin_id, rule))

\* The alerts check_and_create_alert asks for, in the order it asks. A message
\* text is <<template, bin_code, value>>.
AlertRules(data) ==
    LET bin_code == data.bin_code
        fill == The(GetOr(data, "fill_level", data.fill_level, DefaultFill))
        battery == The(GetOr(data, "battery_level", data.battery_level, DefaultBattery))
        temperature == The(GetOr(data, "temperature_c", data.temperature_c, DefaultTemp))
        full == IF fill >= FillCritical
                THEN <<[alert_type |-> "bin_full", severity |-> "critical",
                        message |-> <<"immediate", bin_code, fill>>]>>
                ELSE IF fill >= FillHigh
                THEN <<[alert_type |-> "bin_full", severity |-> "high",
                        message |-> <<"soon", bin_code, fill>>]>>
                ELSE <<>>
        low == IF battery < BatteryLow
               THEN <<[alert_type |-> "sensor_fault", severity |-> "medium",
                       message |-> <<"battery", bin_code, battery>>]>>
               ELSE <<>>
        hot == IF temperature > TempHigh
               THEN <<[alert_type |-> "unusual_activity", severity |-> "high",
                       message |-> <<"temperature", bin_code, temperature>>]>>
               ELSE <<>>
    IN  full \o low \o hot

RECURSIVE CreateAlertsStopsOnFailure(_, _, _, _)
\* CreateAlerts where the first _create_alert call that raises ends the checks
CreateAlertsStopsOnFailure(al, bin_id, rules, fails) ==
    IF rules = <<>> \/ Head(rules).alert_type \in fails THEN al
    ELSE CreateAlertsStopsOnFailure(CreateAlert(al, bin_id, Head(rules), FALSE),
                                    bin_id, Tail(rules), fails)

RECURSIVE CreateAlerts(_, _, _, _)
CreateAlerts(al, bin_id, rules, fails) ==
    IF rules = <<>> THEN al
    ELSE CreateAlerts(CreateAlert(al, bin_id, Head(rules), Head(rules).alert_type \in fails),
                      bin_id, Tail(rules), fails)

\* The container check_and_create_alert works on: int(data.get('bin_id')) of
\* the payload on_message holds; None when int() raises.
AlertBin(data) == ParseInt(data.bin_id)

\* DatabaseManager.check_and_create_alert on the alerts table al. fails: the
\* alert types whose _create_alert call meets a database error.
CheckAndCreateAlert(al, data, fails) ==
    IF AlertBin(data) = None THEN al
    ELSE CreateAlerts(al, The(AlertBin(data)), AlertRules(data), fails)

\* Accepted that goes on with whatever fields the payload text shows, parsed or not
AcceptedUnparsed(msg) ==
    msg.nulls \cap {"fill_level", "temperature_c", "battery_level"} = {}

\* on_message reaches insert_sensor_reading: the payload parses to an object and
\* the log line formats (fill_level, temperature_c, battery_level are not null)
Accepted(msg) ==
    /\ msg.kind = "object"
    /\ msg.nulls \cap {"fill_level", "temperature_c", "battery_level"} = {}

FailPoints == {"reading", "bin_full", "sensor_fault", "unusual_activity"}

\* The database calls of on_message(msg) that can raise, as the sets of calls
\* that raise together: none; or the INSERT of the reading (no alert is then
\* looked at); or any of the _create_alert calls that are made.
FailChoices(msg, macRow, codeRow) ==
    IF ~(Accepted(msg) /\ InsertSensorReading(msg, macRow, codeRow, FALSE).ok)
    THEN {{}}
    ELSE {{"reading"}} \cup
         SUBSET (IF AlertBin(msg) = None THEN {}
                 ELSE {AlertRules(msg)[i].alert_type : i \in 1..Len(AlertRules(msg))})

\* last while no call is being handled
Idle == [op |-> "idle", msg |-> EmptyMsg, fails |-> {}, stored |-> FALSE,
         alerts_before |-> 0]

\* What the SELECT by hardware address of insert_sensor_reading can fetch
MacFetch(msg) ==
    LET nmac == NormalizedMac(msg)
    IN  FetchOne(IF nmac = None THEN {} ELSE RowsByMac(The(nmac)))

\* What the SELECT by device code of insert_sensor_reading can fetch
CodeFetch(msg) == FetchOne(RowsByCode(msg.sensor_code))

\* OnMessage where an alert that cannot be persisted takes the reading with it
OnMessageAlertFailureDropsReading(msg, macRow, codeRow, fails) ==
    /\ LET res == IF Accepted(msg)
                  THEN InsertSensorReading(msg, macRow, codeRow, fails # {})
                  ELSE [ok |-> FALSE, row |-> None]
       IN  /\ readings' = IF res.ok THEN Append(readings, The(res.row)) ELSE readings
           /\ alerts' = IF res.ok THEN CheckAndCreateAlert(alerts, msg, fails)
                        ELSE alerts
           /\ last' = [op |-> "message", msg |-> msg, fails |-> fails,
                       stored |-> res.ok, alerts_before |-> Len(alerts)]
    /\ UNCHANGED <<sensors, subs, alertSeen, apiVars>>

\* OnMessage that checks for alerts whether or not the reading was stored
OnMessageAlertsAnyway(msg, macRow, codeRow, fails) ==
    /\ LET res == IF Accepted(msg)
                  THEN InsertSensorReading(msg, macRow, codeRow, "reading" \in fails)
                  ELSE [ok |-> FALSE, row |-> None]
       IN  /\ readings' = IF res.ok THEN Append(readings, The(res.row)) ELSE readings
           /\ alerts' = IF Accepted(msg) THEN CheckAndCreateAlert(alerts, msg, fails)
                        ELSE alerts
           /\ last' = [op |-> "message", msg |-> msg, fails |-> fails,
                       stored |-> res.ok, alerts_before |-> Len(alerts)]
    /\ UNCHANGED <<sensors, subs, alertSeen, apiVars>>

\* MQTTSubscriber.on_message for one delivered message. macRow, codeRow: what
\* the lookups fetch; fails: the database calls that raise meanwhile.
OnMessage(msg, macRow, codeRow, fails) ==
    /\ LET res == IF Accepted(msg)
                  THEN InsertSensorReading(msg, macRow, codeRow, "reading" \in fails)
                  ELSE [ok |-> FALSE, row |-> None]
       IN  /\ readings' = IF res.ok THEN Append(readings, The(res.row)) ELSE readings
           /\ alerts' = IF res.ok THEN CheckAndCreateAlert(alerts, msg, fails)
                        ELSE alerts
           /\ last' = [op |-> "message", msg |-> msg, fails |-> fails,
                       stored |-> res.ok, alerts_before |-> Len(alerts)]
    /\ UNCHANGED <<sensors, subs, alertSeen, apiVars>>

\* LoopForever that goes on only after a message that was stored
LoopForeverEndsOnFailure ==
    /\ last.op # "idle"
    /\ last.stored
    /\ last' = Idle
    /\ UNCHANGED <<sensors, readings, alerts, subs, alertSeen, apiVars>>

\* MQTTSubscriber.start: on_message has returned and client.loop_forever() waits
\* for the next message
LoopForever ==
    /\ last.op # "idle"
    /\ last' = Idle
    /\ UNCHANGED <<sensors, readings, alerts, subs, alertSeen, apiVars>>

Instances == {1, 2}

\* a subscriber instance between two messages
Waiting == [pc |-> "idle", bin_id |-> 0, rules |-> <<>>, seen |-> 0]

\* the API workers that serve calls side by side
Workers == {1, 2}

\* a worker between two register calls
NoCall == [pc |-> "idle", devices |-> <<>>, k |-> 0, found |-> FALSE, seen |-> 0]

Init ==
    /\ sensors = SeedSensors
    /\ readings = <<>>
    /\ alerts = <<>>
    /\ last = Idle
    /\ subs = [i \in Instances |-> Waiting]
    /\ alertSeen = <<>>
    /\ sessions = {}
    /\ nextSensorId = Cardinality(SeedSensors) + 1
    /\ calls = [w \in Workers |-> NoCall]
    /\ regSeen = <<>>

Next ==
    \/ /\ last.op = "idle"
       /\ Len(readings) < MaxReadings
       /\ \E msg \in Messages :
         \E macRow \in MacFetch(msg), codeRow \in CodeFetch(msg) :
           \E fails \in FailChoices(msg, macRow, codeRow) :
             OnMessage(msg, macRow, codeRow, fails)
    \/ LoopForever

Spec == Init /\ [][Next]_vars

\* one payload for each way a message ends: not JSON, a device nobody knows,
\* a container id that is no number, a full hot container with a low battery
LiveMessages ==
    { [EmptyMsg EXCEPT !.kind = "badjson"],
      Msg(Some(MacU), Some(CodeU), Some(<<"1">>), None, None, Some(900), None, None),
      Msg(Some(MacU), Some(CodeB), Some(<<"x">>), None, None, None, None, None),
      Msg(Some(MacALoose), None, Some(<<"1">>), Some(BinCode), None,
          Some(900), Some(199), Some(451)) }

NextLive ==
    \/ /\ last.op = "idle"
       /\ Len(readings) < MaxReadings
       /\ \E msg \in LiveMessages :
         \E macRow \in MacFetch(msg), codeRow \in CodeFetch(msg) :
           \E fails \in FailChoices(msg, macRow, codeRow) :
             OnMessage(msg, macRow, codeRow, fails)
    \/ LoopForever

\* paho's network loop keeps running and calls on_message again whenever the
\* previous call has returned
SpecLive == Init /\ [][NextLive]_vars /\ WF_vars(LoopForever)

\* the payloads of A, for its own container, that breach rules: fill 90.0;
\* fill 75.0 with battery 19.9
AlertMessages ==
    { Msg(Some(MacALoose), None, Some(<<"1">>), Some(BinCode), None, Some(900), None, None),
      Msg(Some(MacALoose), None, Some(<<"1">>), Some(BinCode), None, Some(750), Some(199),
          None) }

\* the workflow outside this code base that closes alerts: open alert i is set
\* to resolved
ResolveAlert(i) ==
    /\ alerts[i].status = "open"
    /\ alerts' = [alerts EXCEPT ![i].status = "resolved"]
    /\ UNCHANGED <<sensors, readings, last, subs, alertSeen, apiVars>>

NextAlerts ==
    \/ /\ last.op = "idle"
       /\ Len(readings) < MaxReadings
       /\ \E msg \in AlertMessages :
         \E macRow \in MacFetch(msg), codeRow \in CodeFetch(msg) :
           \E fails \in FailChoices(msg, macRow, codeRow) :
             OnMessage(msg, macRow, codeRow, fails)
    \/ last.op = "idle" /\ \E i \in 1..Len(alerts) : ResolveAlert(i)
    \/ LoopForever

\* the subscriber with the alert workflow at work on the same alerts table
SpecAlerts == Init /\ [][NextAlerts]_vars

-----------------------------------------------------------------------------
(* Several subscriber instances on one database. Each instance handles its   *)
(* own messages one at a time; the statements of different instances         *)
(* interleave, every statement seeing what has been committed.               *)

\* the payloads the instances receive: A reporting 90.0 and 75.0 for container
\* 1, and B (by code) reporting a full container 1 with low battery and heat
RaceMessages ==
    { Msg(Some(MacALoose), None, Some(<<"1">>), Some(BinCode), None, Some(900), None, None),
      Msg(Some(MacALoose), None, Some(<<"1">>), Some(BinCode), None, Some(750), None, None),
      Msg(None, Some(CodeB), Some(<<"1">>), Some(BinCode), None,
          Some(900), Some(199), Some(451)) }

\* what instance i does after the _create_alert call for Head(rules) is over
AfterRule(i) ==
    [subs[i] EXCEPT !.rules = Tail(@),
                    !.pc = IF Tail(subs[i].rules) = <<>> THEN "idle" ELSE "select"]

\* RaceReceive that takes the next message while the alerts of the previous
\* one are still being worked on
RaceReceiveReentrant(i, msg, macRow, codeRow, dbFails) ==
    /\ Len(readings) < MaxReadings
    /\ LET res == IF Accepted(msg)
                  THEN InsertSensorReading(msg, macRow, codeRow, dbFails)
                  ELSE [ok |-> FALSE, row |-> None]
       IN  /\ readings' = IF res.ok THEN Append(readings, The(res.row)) ELSE readings
           /\ subs' = [subs EXCEPT ![i] =
                         IF res.ok /\ AlertBin(msg) # None /\ AlertRules(msg) # <<>>
                         THEN [pc |-> "select", bin_id |-> The(AlertBin(msg)),
                               rules |-> AlertRules(msg), seen |-> 0]
                         ELSE Waiting]
    /\ UNCHANGED <<sensors, alerts, last, alertSeen, apiVars>>

\* on_message of instance i up to the first _create_alert call:
\* insert_sensor_reading, then lines 150-154 of check_and_create_alert
RaceReceive(i, msg, macRow, codeRow, dbFails) ==
    /\ subs[i].pc = "idle"
    /\ Len(readings) < MaxReadings
    /\ LET res == IF Accepted(msg)
                  THEN InsertSensorReading(msg, macRow, codeRow, dbFails)
                  ELSE [ok |-> FALSE, row |-> None]
       IN  /\ readings' = IF res.ok THEN Append(readings, The(res.row)) ELSE readings
           /\ subs' = [subs EXCEPT ![i] =
                         IF res.ok /\ AlertBin(msg) # None /\ AlertRules(msg) # <<>>
                         THEN [pc |-> "select", bin_id |-> The(AlertBin(msg)),
                               rules |-> AlertRules(msg), seen |-> 0]
                         ELSE Waiting]
    /\ UNCHANGED <<sensors, alerts, last, alertSeen, apiVars>>

\* _create_alert of instance i, lines 190-199: the SELECT for an open alert
RaceSelect(i, dbFails) ==
    /\ subs[i].pc = "select"
    /\ subs' = [subs EXCEPT ![i] =
                  IF dbFails \/ OpenAlertExists(alerts, subs[i].bin_id,
                                                Head(subs[i].rules).alert_type)
                  THEN AfterRule(i)
                  ELSE [subs[i] EXCEPT !.pc = "insert", !.seen = Len(alerts)]]
    /\ UNCHANGED <<sensors, readings, alerts, last, alertSeen, apiVars>>

\* _create_alert of instance i, lines 201-209: the INSERT and its commit
RaceInsert(i, dbFails) ==
    /\ subs[i].pc = "insert"
    /\ alerts' = IF dbFails THEN alerts
                 ELSE Append(alerts, AlertRow(subs[i].bin_id, Head(subs[i].rules)))
    /\ alertSeen' = IF dbFails THEN alertSeen ELSE Append(alertSeen, subs[i].seen)
    /\ subs' = [subs EXCEPT ![i] = AfterRule(i)]
    /\ UNCHANGED <<sensors, readings, last, apiVars>>

NextRace ==
    \/ \E i \in Instances, msg \in RaceMessages :
         \E macRow \in MacFetch(msg), codeRow \in CodeFetch(msg), dbFails \in BOOLEAN :
           RaceReceive(i, msg, macRow, codeRow, dbFails)
    \/ \E i \in Instances, dbFails \in BOOLEAN : RaceSelect(i, dbFails)
    \/ \E i \in Instances, dbFails \in BOOLEAN : RaceInsert(i, dbFails)

SpecRace == Init /\ [][NextRace]_vars

-----------------------------------------------------------------------------
(* Device registry: dashboard/api/main.py *)

\* Upper bound on the entries of one batch register call.
MaxBatch == 2
\* Upper bound on the values sensors.sensor_id takes.
MaxSensorId == 5

MacOctets == 6
CodeMaxLen == 40
CodeStemLen == 36
MacCodeLen == 6
MacSuffixLen == 5

HexChars == {"0","1","2","3","4","5","6","7","8","9","A","B","C","D","E","F"}

\* re.fullmatch(r'([0-9A-F]{2}:){5}[0-9A-F]{2}', mac)
IsMac(mac) ==
    /\ Len(mac) = 3 * MacOctets - 1
    /\ \A i \in 1..Len(mac) : IF i % 3 = 0 THEN mac[i] = ":" ELSE mac[i] \in HexChars

\* _normalize_mac: the canonical address, None when it raises HTTP 400
NormalizeMac(mac) ==
    IF IsMac(Upper(Strip(mac))) THEN Some(Upper(Strip(mac))) ELSE None

\* s[:n]
Prefix(s, n) == SubSeq(s, 1, IF Len(s) < n THEN Len(s) ELSE n)

\* s[-n:]
Suffix(s, n) == SubSeq(s, IF Len(s) < n THEN 1 ELSE Len(s) - n + 1, Len(s))

\* s.replace(c, '')
Without(s, c) == SelectSeq(s, LAMBDA x : x # c)

\* s.strip(c)
StripChar(s, c) ==
    LET keep == {i \in 1..Len(s) : s[i] # c}
    IN  IF keep = {} THEN <<>>
        ELSE SubSeq(s, CHOOSE i \in keep : \A j \in keep : i <= j,
                       CHOOSE i \in keep : \A j \in keep : i >= j)

\* the characters re.sub(r'[^A-Za-z0-9\-_]', '-', ..) keeps
CodeChars ==
    {LowerCase[i] : i \in 1..Len(LowerCase)} \cup {UpperCase[i] : i \in 1..Len(UpperCase)}
        \cup {Digits[i] : i \in 1..Len(Digits)} \cup {"-", "_"}

\* re.sub(r'[^A-Za-z0-9\-_]', '-', device_name)[:40].strip('-')
BaseCode(device_name) ==
    StripChar(Prefix([i \in 1..Len(device_name) |->
                        IF device_name[i] \in CodeChars THEN device_name[i] ELSE "-"],
                     CodeMaxLen), "-")

\* base_code or f"MAC-{mac.replace(':', '')[-6:]}"
FirstCode(device_name, mac) ==
    IF BaseCode(device_name) # <<>> THEN BaseCode(device_name)
    ELSE <<"M","A","C","-">> \o Suffix(Without(mac, ":"), MacCodeLen)

\* f"{sensor_code[:36]}-{mac[-5:].replace(':', '')}"
SuffixedCode(sensor_code, mac) ==
    Prefix(sensor_code, CodeStemLen) \o <<"-">> \o Without(Suffix(mac, MacSuffixLen), ":")

\* the sensor_code register_devices gives a new device, S being the sensors rows
NewCode(S, device_name, mac) ==
    IF \E r \in S : r.sensor_code = FirstCode(device_name, mac)
    THEN SuffixedCode(FirstCode(device_name, mac), mac)
    ELSE FirstCode(device_name, mac)

\* table waste_bins: never written by the registry or by ingestion
WasteBins ==
    { [bin_id |-> 1, bin_code |-> <<"B","1">>, status |-> "active"],
      [bin_id |-> 2, bin_code |-> <<"B","2">>, status |-> "active"],
      [bin_id |-> 3, bin_code |-> <<"B","3">>, status |-> "inactive"] }

\* SELECT bin_id, bin_code FROM waste_bins WHERE bin_id = %s AND status = 'active'
ActiveBins(bin_id) == {b \in WasteBins : b.bin_id = bin_id /\ b.status = "active"}

\* well formed, bound to no device at first
MacNLoose == <<" ","a","a",":","b","b",":","c","c",":","d","d",":","e","e",":","0","7">>
MacN == <<"A","A",":","B","B",":","C","C",":","D","D",":","E","E",":","0","7">>
\* five octets only
MacShort == <<"A","A",":","B","B",":","C","C",":","D","D",":","E","E">>
\* well formed, bound to no device at first, the last two octets those of MacU
MacV == <<"1","1",":","2","2",":","3","3",":","4","4",":","E","E",":","0","9">>

\* one DeviceItem of a request body
Item(mac, name, bin, offset) ==
    [mac_address |-> mac, device_name |-> name, bin_id |-> bin, weight_offset |-> offset]

\* the DeviceItems requests are made of
Items ==
    { Item(MacNLoose, <<"L","o","b","b","y"," ","1">>, 1, -3),   \* a new device
      Item(MacShort, <<"G","a","t","e">>, 1, 0),                 \* malformed address
      Item(MacU, <<"Y","a","r","d">>, 3, 0),                     \* inactive container
      Item(MacA, <<"H","a","l","l">>, 2, 5),                     \* address bound to A
      Item(MacU, <<"S","1">>, 2, 0),                             \* name that is A's code
      Item(MacV, <<"S","1">>, 1, 0) }                            \* the same name again

RECURSIVE SeqsUpTo(_, _)
\* the sequences over S of length at most n
SeqsUpTo(S, n) ==
    IF n = 0 THEN {<<>>}
    ELSE SeqsUpTo(S, n - 1) \cup
         {Append(q, x) : q \in {r \in SeqsUpTo(S, n - 1) : Len(r) = n - 1}, x \in S}

Batches == SeqsUpTo(Items, MaxBatch)

\* the Authorization tokens requests carry: none, one login issues, one never issued
Tokens == {"t1"}
RequestTokens == {"", "t1", "zz"}

\* Authorized that never looks at the expiry of the session
AuthorizedIgnoresExpiry(token) == \E x \in sessions : x.token = token

\* _require_auth: the session of the token is there and has not expired
Authorized(token) == \E x \in sessions : x.token = token /\ ~x.expired

\* _sessions after _require_auth(token): a refused token is popped
AfterAuth(token) ==
    IF Authorized(token) THEN sessions ELSE {x \in sessions : x.token # token}

\* device_name = item.device_name.strip() or mac
DeviceName(item, mac) ==
    IF Strip(item.device_name) = <<>> THEN mac ELSE Strip(item.device_name)

\* register_devices, lines 742-751: the UPDATE of the rows bound to mac, its
\* commit and the "updated" result
UpdateExisting(st, item, mac, bin_rows) ==
    [st EXCEPT
        !.sensors = {IF r.mac_address = Some(mac)
                     THEN [r EXCEPT !.bin_id = item.bin_id,
                                    !.manufacturer = DeviceName(item, mac),
                                    !.weight_offset = Some(item.weight_offset)]
                     ELSE r : r \in st.sensors},
        !.results = Append(@, [mac |-> mac,
                               bin_code |-> (CHOOSE b \in bin_rows : TRUE).bin_code,
                               sensor_code |-> None,
                               action |-> "updated"])]

\* register_devices, lines 753-765: the code, the INSERT of the new row, its
\* commit and the "created" result
CreateNew(st, item, mac, bin_rows) ==
    [st EXCEPT
        !.sensors = @ \cup
            {[sensor_id |-> st.next,
              sensor_code |-> NewCode(st.sensors, DeviceName(item, mac), mac),
              mac_address |-> Some(mac), bin_id |-> item.bin_id,
              weight_offset |-> Some(item.weight_offset),
              status |-> "active", manufacturer |-> DeviceName(item, mac)]},
        !.next = @ + 1,
        !.results = Append(@, [mac |-> mac,
                               bin_code |-> (CHOOSE b \in bin_rows : TRUE).bin_code,
                               sensor_code |->
                                   Some(NewCode(st.sensors, DeviceName(item, mac), mac)),
                               action |-> "created"])]

\* RegisterItem where a container that is absent or inactive ends the call
RegisterItemBinAborts(st, item, dbFails) ==
    LET nmac == NormalizeMac(item.mac_address) IN
    IF nmac = None THEN [st EXCEPT !.status = 400]
    ELSE IF ActiveBins(item.bin_id) = {} THEN [st EXCEPT !.status = 400]
    ELSE IF dbFails THEN [st EXCEPT !.status = 500]
    ELSE IF \E r \in st.sensors : r.mac_address = Some(The(nmac))
    THEN UpdateExisting(st, item, The(nmac), ActiveBins(item.bin_id))
    ELSE CreateNew(st, item, The(nmac), ActiveBins(item.bin_id))

\* RegisterItem that never looks for the address among the registered devices
RegisterItemInsertsAgain(st, item, dbFails) ==
    LET nmac == NormalizeMac(item.mac_address) IN
    IF nmac = None THEN [st EXCEPT !.status = 400]
    ELSE IF ActiveBins(item.bin_id) = {}
    THEN [st EXCEPT !.errors = Append(@, [mac |-> The(nmac), error |-> "bin"])]
    ELSE IF dbFails THEN [st EXCEPT !.status = 500]
    ELSE CreateNew(st, item, The(nmac), ActiveBins(item.bin_id))

\* One pass of the loop of register_devices over item, on the call's state
\* st = [sensors, next, results, errors, status]; status 0 while the loop runs.
\* dbFails: the UPDATE, the INSERT or its commit raises.
RegisterItem(st, item, dbFails) ==
    LET nmac == NormalizeMac(item.mac_address) IN
    IF nmac = None THEN [st EXCEPT !.status = 400]
    ELSE IF ActiveBins(item.bin_id) = {}
    THEN [st EXCEPT !.errors = Append(@, [mac |-> The(nmac), error |-> "bin"])]
    ELSE IF dbFails THEN [st EXCEPT !.status = 500]
    ELSE IF \E r \in st.sensors : r.mac_address = Some(The(nmac))
    THEN UpdateExisting(st, item, The(nmac), ActiveBins(item.bin_id))
    ELSE CreateNew(st, item, The(nmac), ActiveBins(item.bin_id))

RECURSIVE RegisterLoop(_, _, _, _)
\* the for loop of register_devices from item k on; failAt: the item whose
\* write raises (0: none). An exception ends the loop.
RegisterLoop(st, devices, k, failAt) ==
    IF k > Len(devices) \/ st.status # 0 THEN st
    ELSE RegisterLoop(RegisterItem(st, devices[k], k = failAt), devices, k + 1, failAt)

\* RegisterDevices that commits once, after the loop: a call that ends with an
\* error leaves the table as it found it
RegisterDevicesOneTransaction(token, devices, failAt) ==
    /\ nextSensorId + Len(devices) - 1 <= MaxSensorId
    /\ sessions' = AfterAuth(token)
    /\ LET st == IF ~Authorized(token)
                 THEN [sensors |-> sensors, next |-> nextSensorId,
                       results |-> <<>>, errors |-> <<>>, status |-> 401]
                 ELSE IF devices = <<>>
                 THEN [sensors |-> sensors, next |-> nextSensorId,
                       results |-> <<>>, errors |-> <<>>, status |-> 400]
                 ELSE RegisterLoop([sensors |-> sensors, next |-> nextSensorId,
                                    results |-> <<>>, errors |-> <<>>, status |-> 0],
                                   devices, 1, failAt)
       IN  /\ sensors' = IF st.status = 0 THEN st.sensors ELSE sensors
           /\ nextSensorId' = st.next
           /\ last' = [op |-> "register", token |-> token, devices |-> devices,
                       failAt |-> failAt, authorized |-> Authorized(token),
                       status |-> IF st.status = 0 THEN 200 ELSE st.status,
                       results |-> IF st.status = 0 THEN st.results ELSE <<>>,
                       errors |-> IF st.status = 0 THEN st.errors ELSE <<>>]
    /\ UNCHANGED <<readings, alerts, subs, alertSeen, calls, regSeen>>

\* POST /api/devices/register. The response is [status, results, errors]:
\* HTTP 200 carries results and errors, any other status carries neither.
RegisterDevices(token, devices, failAt) ==
    /\ nextSensorId + Len(devices) - 1 <= MaxSensorId
    /\ sessions' = AfterAuth(token)
    /\ LET st == IF ~Authorized(token)
                 THEN [sensors |-> sensors, next |-> nextSensorId,
                       results |-> <<>>, errors |-> <<>>, status |-> 401]
                 ELSE IF devices = <<>>
                 THEN [sensors |-> sensors, next |-> nextSensorId,
                       results |-> <<>>, errors |-> <<>>, status |-> 400]
                 ELSE RegisterLoop([sensors |-> sensors, next |-> nextSensorId,
                                    results |-> <<>>, errors |-> <<>>, status |-> 0],
                                   devices, 1, failAt)
       IN  /\ sensors' = st.sensors
           /\ nextSensorId' = st.next
           /\ last' = [op |-> "register", token |-> token, devices |-> devices,
                       failAt |-> failAt, authorized |-> Authorized(token),
                       status |-> IF st.status = 0 THEN 200 ELSE st.status,
                       results |-> IF st.status = 0 THEN st.results ELSE <<>>,
                       errors |-> IF st.status = 0 THEN st.errors ELSE <<>>]
    /\ UNCHANGED <<readings, alerts, subs, alertSeen, calls, regSeen>>

\* POST /api/auth/login with good credentials: a fresh token gets a session
Login(token) ==
    /\ \A x \in sessions : x.token # token
    /\ sessions' = sessions \cup {[token |-> token, expired |-> FALSE]}
    /\ UNCHANGED <<sensors, readings, alerts, last, subs, alertSeen, nextSensorId, calls, regSeen>>

\* POST /api/auth/logout
Logout(token) ==
    /\ \E x \in sessions : x.token = token
    /\ sessions' = {x \in sessions : x.token # token}
    /\ UNCHANGED <<sensors, readings, alerts, last, subs, alertSeen, nextSensorId, calls, regSeen>>

\* time passes the expires of a session: datetime.now() > session["expires"]
Expire(token) ==
    /\ \E x \in sessions : x.token = token /\ ~x.expired
    /\ sessions' = {IF x.token = token THEN [x EXCEPT !.expired = TRUE] ELSE x :
                      x \in sessions}
    /\ UNCHANGED <<sensors, readings, alerts, last, subs, alertSeen, nextSensorId, calls, regSeen>>

\* the API has answered and serves the next request
ServeNext ==
    /\ last.op # "idle"
    /\ last' = Idle
    /\ UNCHANGED <<sensors, readings, alerts, subs, alertSeen, apiVars>>

NextRegistry ==
    \/ /\ last.op = "idle"
       /\ \E token \in RequestTokens, devices \in Batches :
            \E failAt \in 0..Len(devices) : RegisterDevices(token, devices, failAt)
    \/ last.op = "idle" /\ \E token \in Tokens : Login(token)
    \/ last.op = "idle" /\ \E token \in Tokens : Logout(token)
    \/ last.op = "idle" /\ \E token \in Tokens : Expire(token)
    \/ ServeNext

SpecRegistry == Init /\ [][NextRegistry]_vars

-----------------------------------------------------------------------------
(* Device lookup, update and deregistration: dashboard/api/main.py, next to  *)
(* the subscriber that stores readings for the registered devices.           *)

\* the sensor_id values of the requests: the devices there are at first, and
\* one id no device has
DeviceIds == {1, 2, 3, 4}

\* the addresses devices look themselves up by
LookupMacs == {MacALoose, MacC, MacU, MacShort}

\* the payload the subscriber receives meanwhile, from the address of A
DeviceMessages ==
    { Msg(Some(MacALoose), None, Some(<<"1">>), Some(BinCode), Some(120), Some(500),
          None, None) }

\* the bodies of the update requests: the address of A, a malformed address,
\* an address no device has
UpdateBodies ==
    { Item(MacA, <<" ","H","a","l","l">>, 2, 5),
      Item(MacShort, <<"G","a","t","e">>, 1, 0),
      Item(MacU, <<"Y","a","r","d">>, 3, 0) }

\* the Authorization tokens of the update and delete requests: none, one login issues
DeviceTokens == {"", "t1"}

\* SELECT .. FROM sensors s JOIN waste_bins wb ON s.bin_id = wb.bin_id
\* WHERE s.mac_address = %s AND s.status = 'active': the rows of the response
LookupRows(mac) ==
    UNION { { [sensor_id |-> r.sensor_id, sensor_code |-> r.sensor_code,
               bin_id |-> ToStr(r.bin_id), bin_code |-> wb.bin_code,
               weight_offset |-> OffsetOf(r)] :
                wb \in {b \in WasteBins : b.bin_id = r.bin_id} } :
            r \in {x \in sensors : x.mac_address = Some(mac) /\ x.status = "active"} }

\* LookupDevice that answers an unknown address with HTTP 404
LookupDeviceFailsOnUnknown(mac, row, dbFails) ==
    /\ last' = [op |-> "lookup", mac |-> mac, dbFails |-> dbFails,
                status |-> IF dbFails THEN 500 ELSE IF row = None THEN 404 ELSE 200,
                registered |-> ~dbFails /\ row # None,
                row |-> IF dbFails THEN None ELSE row]
    /\ UNCHANGED <<sensors, readings, alerts, subs, alertSeen, apiVars>>

\* GET /api/devices/lookup?mac=..; row: what fetchone() returns; dbFails: the
\* connection or the query raises. The response is [status, registered, row].
LookupDevice(mac, row, dbFails) ==
    /\ last' = [op |-> "lookup", mac |-> mac, dbFails |-> dbFails,
                status |-> IF dbFails THEN 500 ELSE 200,
                registered |-> ~dbFails /\ row # None,
                row |-> IF dbFails THEN None ELSE row]
    /\ UNCHANGED <<sensors, readings, alerts, subs, alertSeen, apiVars>>

\* UpdateDevice without the check that the address belongs to no other device
UpdateDeviceNoCollisionCheck(token, sensor_id, body, dbFails) ==
    /\ sessions' = AfterAuth(token)
    /\ LET nmac == NormalizeMac(body.mac_address)
           status == IF ~Authorized(token) THEN 401
                     ELSE IF nmac = None THEN 400
                     ELSE IF ~\E r \in sensors : r.sensor_id = sensor_id THEN 404
                     ELSE IF dbFails THEN 500
                     ELSE 200
       IN  /\ sensors' = IF status # 200 THEN sensors
                         ELSE {IF r.sensor_id = sensor_id
                               THEN [r EXCEPT !.mac_address = nmac,
                                              !.bin_id = body.bin_id,
                                              !.manufacturer = Strip(body.device_name),
                                              !.weight_offset = Some(body.weight_offset)]
                               ELSE r : r \in sensors}
           /\ last' = [op |-> "update", token |-> token, sensor_id |-> sensor_id,
                       body |-> body, dbFails |-> dbFails,
                       authorized |-> Authorized(token), status |-> status]
    /\ UNCHANGED <<readings, alerts, subs, alertSeen, nextSensorId, calls, regSeen>>

\* PUT /api/devices/{sensor_id}. dbFails: the UPDATE or its commit raises.
UpdateDevice(token, sensor_id, body, dbFails) ==
    /\ sessions' = AfterAuth(token)
    /\ LET nmac == NormalizeMac(body.mac_address)
           status == IF ~Authorized(token) THEN 401
                     ELSE IF nmac = None THEN 400
                     ELSE IF ~\E r \in sensors : r.sensor_id = sensor_id THEN 404
                     ELSE IF \E r \in sensors :
                                r.mac_address = nmac /\ r.sensor_id # sensor_id THEN 409
                     ELSE IF dbFails THEN 500
                     ELSE 200
       IN  /\ sensors' = IF status # 200 THEN sensors
                         ELSE {IF r.sensor_id = sensor_id
                               THEN [r EXCEPT !.mac_address = nmac,
                                              !.bin_id = body.bin_id,
                                              !.manufacturer = Strip(body.device_name),
                                              !.weight_offset = Some(body.weight_offset)]
                               ELSE r : r \in sensors}
           /\ last' = [op |-> "update", token |-> token, sensor_id |-> sensor_id,
                       body |-> body, dbFails |-> dbFails,
                       authorized |-> Authorized(token), status |-> status]
    /\ UNCHANGED <<readings, alerts, subs, alertSeen, nextSensorId, calls, regSeen>>

\* SELECT COUNT(*) as cnt FROM sensor_readings WHERE sensor_id = %s
ReadingCount(sensor_id) ==
    Cardinality({i \in 1..Len(readings) : readings[i].sensor_id = sensor_id})

\* DeleteDevice without the check that the device is there
DeleteDeviceNoExistenceCheck(token, sensor_id, dbFails) ==
    /\ sessions' = AfterAuth(token)
    /\ LET status == IF ~Authorized(token) THEN 401
                     ELSE IF dbFails THEN 500
                     ELSE 200
       IN  /\ sensors' = IF status # 200 THEN sensors
                         ELSE IF ReadingCount(sensor_id) > 0
                         THEN {IF r.sensor_id = sensor_id
                               THEN [r EXCEPT !.mac_address = None] ELSE r : r \in sensors}
                         ELSE {r \in sensors : r.sensor_id # sensor_id}
           /\ last' = [op |-> "delete", token |-> token, sensor_id |-> sensor_id,
                       dbFails |-> dbFails, authorized |-> Authorized(token),
                       status |-> status]
    /\ UNCHANGED <<readings, alerts, subs, alertSeen, nextSensorId, calls, regSeen>>

\* DeleteDevice that removes the device together with its readings
DeleteDeviceDropsReadings(token, sensor_id, dbFails) ==
    /\ sessions' = AfterAuth(token)
    /\ LET status == IF ~Authorized(token) THEN 401
                     ELSE IF ~\E r \in sensors : r.sensor_id = sensor_id THEN 404
                     ELSE IF dbFails THEN 500
                     ELSE 200
       IN  /\ sensors' = IF status # 200 THEN sensors
                         ELSE {r \in sensors : r.sensor_id # sensor_id}
           /\ readings' = IF status # 200 THEN readings
                          ELSE SelectSeq(readings, LAMBDA x : x.sensor_id # sensor_id)
           /\ last' = [op |-> "delete", token |-> token, sensor_id |-> sensor_id,
                       dbFails |-> dbFails, authorized |-> Authorized(token),
                       status |-> status]
    /\ UNCHANGED <<alerts, subs, alertSeen, nextSensorId, calls, regSeen>>

\* DeleteDevice that leaves the row of a device with readings as it is
DeleteDeviceKeepsAddress(token, sensor_id, dbFails) ==
    /\ sessions' = AfterAuth(token)
    /\ LET status == IF ~Authorized(token) THEN 401
                     ELSE IF ~\E r \in sensors : r.sensor_id = sensor_id THEN 404
                     ELSE IF dbFails THEN 500
                     ELSE 200
       IN  /\ sensors' = IF status # 200 \/ ReadingCount(sensor_id) > 0 THEN sensors
                         ELSE {r \in sensors : r.sensor_id # sensor_id}
           /\ last' = [op |-> "delete", token |-> token, sensor_id |-> sensor_id,
                       dbFails |-> dbFails, authorized |-> Authorized(token),
                       status |-> status]
    /\ UNCHANGED <<readings, alerts, subs, alertSeen, nextSensorId, calls, regSeen>>

\* DeleteDevice that removes the row whether or not the device has readings
DeleteDeviceAlwaysRemoves(token, sensor_id, dbFails) ==
    /\ sessions' = AfterAuth(token)
    /\ LET status == IF ~Authorized(token) THEN 401
                     ELSE IF ~\E r \in sensors : r.sensor_id = sensor_id THEN 404
                     ELSE IF dbFails THEN 500
                     ELSE 200
       IN  /\ sensors' = IF status # 200 THEN sensors
                         ELSE {r \in sensors : r.sensor_id # sensor_id}
           /\ last' = [op |-> "delete", token |-> token, sensor_id |-> sensor_id,
                       dbFails |-> dbFails, authorized |-> Authorized(token),
                       status |-> status]
    /\ UNCHANGED <<readings, alerts, subs, alertSeen, nextSensorId, calls, regSeen>>

\* DELETE /api/devices/{sensor_id}. dbFails: the UPDATE, the DELETE or its
\* commit raises.
DeleteDevice(token, sensor_id, dbFails) ==
    /\ sessions' = AfterAuth(token)
    /\ LET status == IF ~Authorized(token) THEN 401
                     ELSE IF ~\E r \in sensors : r.sensor_id = sensor_id THEN 404
                     ELSE IF dbFails THEN 500
                     ELSE 200
       IN  /\ sensors' = IF status # 200 THEN sensors
                         ELSE IF ReadingCount(sensor_id) > 0
                         THEN {IF r.sensor_id = sensor_id
                               THEN [r EXCEPT !.mac_address = None] ELSE r : r \in sensors}
                         ELSE {r \in sensors : r.sensor_id # sensor_id}
           /\ last' = [op |-> "delete", token |-> token, sensor_id |-> sensor_id,
                       dbFails |-> dbFails, authorized |-> Authorized(token),
                       status |-> status]
    /\ UNCHANGED <<readings, alerts, subs, alertSeen, nextSensorId, calls, regSeen>>

NextDevices ==
    \/ /\ last.op = "idle"
       /\ \E mac \in LookupMacs, dbFails \in BOOLEAN :
            \E row \in FetchOne(LookupRows(Upper(Strip(mac)))) :
              LookupDevice(mac, row, dbFails)
    \/ /\ last.op = "idle"
       /\ \E token \in DeviceTokens, sensor_id \in DeviceIds, body \in UpdateBodies,
             dbFails \in BOOLEAN :
            UpdateDevice(token, sensor_id, body, dbFails)
    \/ /\ last.op = "idle"
       /\ \E token \in DeviceTokens, sensor_id \in DeviceIds, dbFails \in BOOLEAN :
            DeleteDevice(token, sensor_id, dbFails)
    \/ /\ last.op = "idle"
       /\ Len(readings) < MaxReadings
       /\ \E msg \in DeviceMessages :
            \E macRow \in MacFetch(msg), codeRow \in CodeFetch(msg) :
              OnMessage(msg, macRow, codeRow, {})
    \/ last.op = "idle" /\ \E token \in Tokens : Login(token)
    \/ ServeNext

SpecDevices == Init /\ [][NextDevices]_vars

-----------------------------------------------------------------------------
(* The subscriber and the API at work on the same tables, one call at a time *)

\* the payload the subscriber receives: A reports 12.0 kg and fill 90.0 for
\* container 1
PlatformMessages ==
    { Msg(Some(MacALoose), None, Some(<<"1">>), Some(BinCode), Some(120), Some(900),
          None, None) }

\* the entries of the register calls: the address of A for container 2 with
\* offset 0.5, and a new device
PlatformItems ==
    { Item(MacA, <<"H","a","l","l">>, 2, 5),
      Item(MacNLoose, <<"L","o","b","b","y"," ","1">>, 1, -3) }

\* the devices the update and delete calls name: A and the first one created
PlatformIds == {1, 4}

\* the bodies of the update calls: the address of A, and an address no device has
PlatformBodies ==
    { Item(MacA, <<" ","H","a","l","l">>, 2, 5),
      Item(MacU, <<"Y","a","r","d">>, 3, 0) }

\* the addresses looked up
PlatformMacs == {MacALoose, MacU}

NextPlatform ==
    \/ /\ last.op = "idle"
       /\ Len(readings) < MaxReadings
       /\ \E msg \in PlatformMessages :
         \E macRow \in MacFetch(msg), codeRow \in CodeFetch(msg) :
           \E fails \in FailChoices(msg, macRow, codeRow) :
             OnMessage(msg, macRow, codeRow, fails)
    \/ /\ last.op = "idle"
       /\ \E token \in Tokens, devices \in SeqsUpTo(PlatformItems, MaxBatch) :
            RegisterDevices(token, devices, 0)
    \/ /\ last.op = "idle"
       /\ \E token \in Tokens, sensor_id \in PlatformIds, body \in PlatformBodies,
             dbFails \in BOOLEAN :
            UpdateDevice(token, sensor_id, body, dbFails)
    \/ /\ last.op = "idle"
       /\ \E token \in Tokens, sensor_id \in PlatformIds, dbFails \in BOOLEAN :
            DeleteDevice(token, sensor_id, dbFails)
    \/ /\ last.op = "idle"
       /\ \E mac \in PlatformMacs, dbFails \in BOOLEAN :
            \E row \in FetchOne(LookupRows(Upper(Strip(mac)))) :
              LookupDevice(mac, row, dbFails)
    \/ last.op = "idle" /\ \E token \in Tokens : Login(token)
    \/ ServeNext

SpecPlatform == Init /\ [][NextPlatform]_vars

-----------------------------------------------------------------------------
(* Several API workers on one database. Each worker serves one register call *)
(* at a time; the statements of different workers interleave, every          *)
(* statement seeing what has been committed. Each worker holds the sessions  *)
(* of the tokens it is called with.                                          *)

\* the entries of the concurrent register calls: one new address written in
\* two ways, the address of A, an inactive container, a malformed address
RaceItems ==
    { Item(MacNLoose, <<"L","o","b","b","y"," ","1">>, 1, -3),
      Item(MacN, <<"D","o","c","k">>, 2, 0),
      Item(MacA, <<"H","a","l","l">>, 2, 5),
      Item(MacU, <<"Y","a","r","d">>, 3, 0),
      Item(MacShort, <<"G","a","t","e">>, 1, 0) }

\* the entries a call in flight has still to go through
Pending(c) == IF c.pc = "idle" THEN 0 ELSE Len(c.devices) - c.k + 1

\* worker w after the entry in hand: the next entry, or the response
NextEntry(w) ==
    IF calls[w].k = Len(calls[w].devices) THEN NoCall
    ELSE [calls[w] EXCEPT !.pc = "select", !.k = @ + 1, !.found = FALSE, !.seen = 0]

\* register_devices of worker w, lines 714-722: _require_auth and the check
\* for an empty list; a refused or empty call is answered at once
RegBegin(w, token, devices) ==
    /\ calls[w].pc = "idle"
    /\ nextSensorId + Len(devices) - 1
          + Pending(calls[CHOOSE v \in Workers : v # w]) <= MaxSensorId
    /\ sessions' = AfterAuth(token)
    /\ calls' = [calls EXCEPT ![w] =
                   IF ~Authorized(token) \/ devices = <<>> THEN NoCall
                   ELSE [pc |-> "select", devices |-> devices, k |-> 1,
                         found |-> FALSE, seen |-> 0]]
    /\ UNCHANGED <<sensors, readings, alerts, last, subs, alertSeen, nextSensorId,
                   regSeen>>

\* RegSelect whose SELECT by address finds no row
RegSelectFindsNone(w) ==
    /\ calls[w].pc = "select"
    /\ LET item == calls[w].devices[calls[w].k]
           nmac == NormalizeMac(item.mac_address)
       IN  calls' = [calls EXCEPT ![w] =
                       IF nmac = None THEN NoCall
                       ELSE IF ActiveBins(item.bin_id) = {} THEN NextEntry(w)
                       ELSE [calls[w] EXCEPT !.pc = "write", !.found = FALSE,
                                             !.seen = nextSensorId]]
    /\ UNCHANGED <<sensors, readings, alerts, last, subs, alertSeen, sessions,
                   nextSensorId, regSeen>>

\* register_devices of worker w, lines 726-741 for the entry in hand:
\* _normalize_mac (a malformed address ends the call), the SELECT on
\* waste_bins (no active container: an error entry, on to the next), the
\* SELECT on sensors by address
RegSelect(w) ==
    /\ calls[w].pc = "select"
    /\ LET item == calls[w].devices[calls[w].k]
           nmac == NormalizeMac(item.mac_address)
       IN  calls' = [calls EXCEPT ![w] =
                       IF nmac = None THEN NoCall
                       ELSE IF ActiveBins(item.bin_id) = {} THEN NextEntry(w)
                       ELSE [calls[w] EXCEPT
                               !.pc = "write",
                               !.found = \E r \in sensors :
                                            r.mac_address = Some(The(nmac)),
                               !.seen = nextSensorId]]
    /\ UNCHANGED <<sensors, readings, alerts, last, subs, alertSeen, sessions,
                   nextSensorId, regSeen>>

\* register_devices of worker w, lines 742-765 for the entry in hand: the
\* UPDATE when the SELECT found a row, else the code and the INSERT, and the
\* commit. dbFails: the statement raises and the call ends.
RegWrite(w, dbFails) ==
    /\ calls[w].pc = "write"
    /\ LET item == calls[w].devices[calls[w].k]
           mac == The(NormalizeMac(item.mac_address))
           st == [sensors |-> sensors, next |-> nextSensorId,
                  results |-> <<>>, errors |-> <<>>, status |-> 0]
           new == IF dbFails THEN st
                  ELSE IF calls[w].found
                  THEN UpdateExisting(st, item, mac, ActiveBins(item.bin_id))
                  ELSE CreateNew(st, item, mac, ActiveBins(item.bin_id))
       IN  /\ sensors' = new.sensors
           /\ nextSensorId' = new.next
           /\ regSeen' = IF dbFails \/ calls[w].found THEN regSeen
                         ELSE Append(regSeen, [sensor_id |-> nextSensorId,
                                               seen |-> calls[w].seen,
                                               worker |-> w])
           /\ calls' = [calls EXCEPT ![w] = IF dbFails THEN NoCall ELSE NextEntry(w)]
    /\ UNCHANGED <<readings, alerts, last, subs, alertSeen, sessions>>

NextRegisterRace ==
    \/ \E w \in Workers, token \in DeviceTokens,
          devices \in SeqsUpTo(RaceItems, MaxBatch) : RegBegin(w, token, devices)
    \/ \E w \in Workers : RegSelect(w)
    \/ \E w \in Workers, dbFails \in BOOLEAN : RegWrite(w, dbFails)
    \/ \E token \in Tokens : Login(token)

SpecRegisterRace == Init /\ [][NextRegisterRace]_vars

-----------------------------------------------------------------------------
(* Devices that look themselves up at boot and then publish, on a registry   *)
(* that holds devices of either lifecycle status                             *)

\* the sensors tables the service can start on: every device active, or C
\* switched to inactive with its address still bound
RegistryStates ==
    { SeedSensors,
      {IF r.sensor_id = 3 THEN [r EXCEPT !.status = "inactive"] ELSE r : r \in SeedSensors} }

\* the payloads the devices publish after boot
BootMessages ==
    { Msg(mac, None, bin, None, Some(120), Some(500), None, None) :
        mac \in {Some(MacALoose), Some(MacC), Some(MacU)}, bin \in {None, Some(<<"1">>)} }

InitBoot ==
    /\ sensors \in RegistryStates
    /\ readings = <<>>
    /\ alerts = <<>>
    /\ last = Idle
    /\ subs = [i \in Instances |-> Waiting]
    /\ alertSeen = <<>>
    /\ sessions = {}
    /\ nextSensorId = Cardinality(SeedSensors) + 1
    /\ calls = [w \in Workers |-> NoCall]
    /\ regSeen = <<>>

NextBoot ==
    \/ /\ last.op = "idle"
       /\ \E mac \in LookupMacs, dbFails \in BOOLEAN :
            \E row \in FetchOne(LookupRows(Upper(Strip(mac)))) :
              LookupDevice(mac, row, dbFails)
    \/ /\ last.op = "idle"
       /\ Len(readings) < MaxReadings
       /\ \E msg \in BootMessages :
         \E macRow \in MacFetch(msg), codeRow \in CodeFetch(msg) :
           \E fails \in FailChoices(msg, macRow, codeRow) :
             OnMessage(msg, macRow, codeRow, fails)
    \/ ServeNext

SpecBoot == InitBoot /\ [][NextBoot]_vars

-----------------------------------------------------------------------------
(* A device is deregistered while it keeps publishing, and its address may   *)
(* be registered again                                                       *)

\* the payloads A publishes: without and with its device code
DeregMessages ==
    { Msg(Some(MacALoose), code, Some(<<"1">>), Some(BinCode), Some(120), Some(500),
          None, None) : code \in {None, Some(CodeA)} }

\* the devices the delete and update calls name: A and C
DeregIds == {1, 3}

\* the entry that registers the address of A again
DeregItems == { Item(MacA, <<"H","a","l","l">>, 2, 5) }

\* the bodies of the update calls: that entry, and the address of A for a
\* container id that waste_bins does not have
DeregBodies == DeregItems \cup { Item(MacA, <<"S","h","e","d">>, 9, 0) }

NextDeregister ==
    \/ /\ last.op = "idle"
       /\ \E token \in Tokens, sensor_id \in DeregIds, dbFails \in BOOLEAN :
            DeleteDevice(token, sensor_id, dbFails)
    \/ /\ last.op = "idle"
       /\ Len(readings) < MaxReadings
       /\ \E msg \in DeregMessages :
         \E macRow \in MacFetch(msg), codeRow \in CodeFetch(msg) :
           \E fails \in FailChoices(msg, macRow, codeRow) :
             OnMessage(msg, macRow, codeRow, fails)
    \/ /\ last.op = "idle"
       /\ \E token \in Tokens, devices \in SeqsUpTo(DeregItems, MaxBatch) :
            RegisterDevices(token, devices, 0)
    \/ /\ last.op = "idle"
       /\ \E token \in Tokens, sensor_id \in DeregIds, body \in DeregBodies :
            UpdateDevice(token, sensor_id, body, FALSE)
    \/ last.op = "idle" /\ \E token \in Tokens : Login(token)
    \/ ServeNext

SpecDeregister == Init /\ [][NextDeregister]_vars

-----------------------------------------------------------------------------
(* The subscriber and the API are separate processes on one database: the    *)
(* statements of a message being stored and of a delete call interleave,     *)
(* every statement seeing what has been committed.                           *)

\* insert_sensor_reading of instance i, lines 74-101: the SELECTs that find the
\* device; an unknown device ends the message
StoreResolve(i, msg, macRow, codeRow) ==
    /\ subs[i].pc = "idle"
    /\ Len(readings) + Cardinality({j \in Instances : subs[j].pc = "store"}) < MaxReadings
    /\ subs' = [subs EXCEPT ![i] =
                  IF Accepted(msg) /\ InsertSensorReading(msg, macRow, codeRow, FALSE).ok
                  THEN [pc |-> "store", msg |-> msg, macRow |-> macRow, codeRow |-> codeRow]
                  ELSE Waiting]
    /\ UNCHANGED <<sensors, readings, alerts, last, alertSeen, apiVars>>

\* insert_sensor_reading of instance i, lines 103-139: calibration, the INSERT
\* of the reading for the device found and the commit; then
\* check_and_create_alert. dbFails: the INSERT raises and is rolled back.
StoreInsert(i, dbFails) ==
    /\ subs[i].pc = "store"
    /\ LET res == InsertSensorReading(subs[i].msg, subs[i].macRow, subs[i].codeRow, dbFails)
       IN  /\ readings' = IF res.ok THEN Append(readings, The(res.row)) ELSE readings
           /\ alerts' = IF res.ok THEN CheckAndCreateAlert(alerts, subs[i].msg, {})
                        ELSE alerts
    /\ subs' = [subs EXCEPT ![i] = Waiting]
    /\ UNCHANGED <<sensors, last, alertSeen, apiVars>>

\* delete_device of worker w, lines 818-831: _require_auth, the SELECT of the
\* device (404 when there is none) and the count of its readings
DelCount(w, token, sensor_id) ==
    /\ calls[w].pc = "idle"
    /\ sessions' = AfterAuth(token)
    /\ calls' = [calls EXCEPT ![w] =
                   IF Authorized(token) /\ \E r \in sensors : r.sensor_id = sensor_id
                   THEN [pc |-> "write", sensor_id |-> sensor_id,
                         cnt |-> ReadingCount(sensor_id)]
                   ELSE NoCall]
    /\ UNCHANGED <<sensors, readings, alerts, last, subs, alertSeen, nextSensorId,
                   regSeen>>

\* delete_device of worker w, lines 833-838: the UPDATE that clears the
\* address when readings were counted, else the DELETE of the row, and the
\* commit. dbFails: the statement raises.
DelWrite(w, dbFails) ==
    /\ calls[w].pc = "write"
    /\ sensors' = IF dbFails THEN sensors
                  ELSE IF calls[w].cnt > 0
                  THEN {IF r.sensor_id = calls[w].sensor_id
                        THEN [r EXCEPT !.mac_address = None] ELSE r : r \in sensors}
                  ELSE {r \in sensors : r.sensor_id # calls[w].sensor_id}
    /\ calls' = [calls EXCEPT ![w] = NoCall]
    /\ UNCHANGED <<readings, alerts, last, subs, alertSeen, sessions, nextSensorId,
                   regSeen>>

NextDeleteRace ==
    \/ \E i \in Instances, msg \in DeregMessages :
         \E macRow \in MacFetch(msg), codeRow \in CodeFetch(msg) :
           StoreResolve(i, msg, macRow, codeRow)
    \/ \E i \in Instances, dbFails \in BOOLEAN : StoreInsert(i, dbFails)
    \/ \E w \in Workers, token \in DeviceTokens, sensor_id \in DeregIds :
         DelCount(w, token, sensor_id)
    \/ \E w \in Workers, dbFails \in BOOLEAN : DelWrite(w, dbFails)
    \/ \E token \in Tokens : Login(token)

SpecDeleteRace == Init /\ [][NextDeleteRace]_vars

-----------------------------------------------------------------------------
(* Sessions come and go while the registry is called with good and bad       *)
(* tokens                                                                    *)

\* the entries of the calls: the address of A for container 2, and a
\* malformed address
SessionItems ==
    { Item(MacA, <<"H","a","l","l">>, 2, 5),
      Item(MacShort, <<"G","a","t","e">>, 1, 0) }

\* the devices the update and delete calls name: A, and one that is not there
SessionIds == {1, 4}

NextSessions ==
    \/ /\ last.op = "idle"
       /\ \E token \in RequestTokens, devices \in SeqsUpTo(SessionItems, MaxBatch) :
            RegisterDevices(token, devices, 0)
    \/ /\ last.op = "idle"
       /\ \E token \in RequestTokens, sensor_id \in SessionIds, body \in SessionItems :
            UpdateDevice(token, sensor_id, body, FALSE)
    \/ /\ last.op = "idle"
       /\ \E token \in RequestTokens, sensor_id \in SessionIds :
            DeleteDevice(token, sensor_id, FALSE)
    \/ /\ last.op = "idle"
       /\ \E mac \in PlatformMacs, dbFails \in BOOLEAN :
            \E row \in FetchOne(LookupRows(Upper(Strip(mac)))) :
              LookupDevice(mac, row, dbFails)
    \/ /\ last.op = "idle"
       /\ Len(readings) < MaxReadings
       /\ \E msg \in PlatformMessages :
            \E macRow \in MacFetch(msg), codeRow \in CodeFetch(msg) :
              OnMessage(msg, macRow, codeRow, {})
    \/ last.op = "idle" /\ \E token \in Tokens : Login(token)
    \/ last.op = "idle" /\ \E token \in Tokens : Logout(token)
    \/ last.op = "idle" /\ \E token \in Tokens : Expire(token)
    \/ ServeNext

SpecSessions == Init /\ [][NextSessions]_vars

-----------------------------------------------------------------------------
(* Properties of ingestion *)

\* the reading stored for the message just handled (when last.stored)
StoredRow == readings[Len(readings)]

\* the alerts opened while the message just handled was processed
OpenedNow == {i \in 1..Len(alerts) : i > last.alerts_before}

\* open alerts of a container and kind that existed before the message just handled
OpenBefore(bin_id, alert_type) ==
    {i \in 1..Len(alerts) :
        /\ i <= last.alerts_before
        /\ alerts[i].bin_id = bin_id
        /\ alerts[i].alert_type = alert_type
        /\ alerts[i].status = "open"}

\* devices whose hardware address is the payload's, trimmed and upper-cased
MacMatches(msg) ==
    IF msg.mac_address = None THEN {}
    ELSE {s \in sensors : s.mac_address = Some(Upper(Strip(The(msg.mac_address))))}

\* devices whose code is the payload's
CodeMatches(msg) ==
    IF msg.sensor_code = None THEN {}
    ELSE {s \in sensors : s.sensor_code = The(msg.sensor_code)}

Handled == last.op = "message"
Stored == last.op = "message" /\ last.stored

\* C1: a stored reading whose payload carries a registered hardware address
\* (after trimming and upper-casing) has the container of that registration,
\* whatever container the payload asserts.
C1_RegistrationContainerWins ==
    Stored => \A s \in MacMatches(last.msg) : StoredRow.bin_id = s.bin_id

\* C1 case: stored for a registered address while the payload asserts another container
C1_Witness ==
    /\ Stored
    /\ \E s \in MacMatches(last.msg) :
         /\ ParseInt(last.msg.bin_id) # None
         /\ ParseInt(last.msg.bin_id) # Some(s.bin_id)
         /\ StoredRow.bin_id = s.bin_id

\* C2: every alert opened while a message is processed is opened for the
\* container under which that message's reading was stored.
C2_AlertForStoredContainer ==
    Stored => \A i \in OpenedNow : alerts[i].bin_id = StoredRow.bin_id

\* C3: with one subscriber handling messages one at a time, no two open alerts
\* share container and kind.
C3_OneOpenAlertPerContainerKind ==
    \A i, j \in 1..Len(alerts) :
        (/\ i # j
         /\ alerts[i].status = "open" /\ alerts[j].status = "open"
         /\ alerts[i].bin_id = alerts[j].bin_id)
        => alerts[i].alert_type # alerts[j].alert_type

\* C3 case: a rule fires for a container that has an open alert of its kind,
\* the call meets no database error, and nothing is opened
C3_Witness ==
    /\ Stored
    /\ AlertBin(last.msg) # None
    /\ \E k \in 1..Len(AlertRules(last.msg)) :
         /\ AlertRules(last.msg)[k].alert_type \notin last.fails
         /\ OpenBefore(The(AlertBin(last.msg)), AlertRules(last.msg)[k].alert_type) # {}
    /\ OpenedNow = {}

\* C5: a message whose hardware address and device code both match no device
\* stores no reading and leaves the reading and alert tables as they were.
C5_UnknownDeviceChangesNothing ==
    [][(last'.op = "message" /\ MacMatches(last'.msg) = {} /\ CodeMatches(last'.msg) = {})
          => (~last'.stored /\ readings' = readings /\ alerts' = alerts)]_vars

\* C5 case: an unknown device reports a full container, with an address and a code
C5_Witness ==
    /\ Handled
    /\ MacMatches(last.msg) = {} /\ CodeMatches(last.msg) = {}
    /\ last.msg.mac_address # None /\ last.msg.sensor_code # None
    /\ ParseInt(last.msg.bin_id) # None
    /\ last.msg.fill_level = Some(900)

\* C6: a stored reading resolved by device code (hardware address missing or
\* unregistered) has the container the payload asserts.
C6_CodeMatchTrustsPayload ==
    (Stored /\ MacMatches(last.msg) = {} /\ CodeMatches(last.msg) # {})
        => Some(StoredRow.bin_id) = ParseInt(last.msg.bin_id)

\* C6 case: stored by code under a container that is not the device's own
C6_Witness ==
    /\ Stored
    /\ MacMatches(last.msg) = {}
    /\ \E s \in CodeMatches(last.msg) :
         s.sensor_id = StoredRow.sensor_id /\ s.bin_id # StoredRow.bin_id

\* the calibration offset of the device a stored reading belongs to (NULL is 0)
StoredOffset ==
    LET s == CHOOSE s \in sensors : s.sensor_id = StoredRow.sensor_id
    IN  IF s.weight_offset = None THEN 0 ELSE The(s.weight_offset)

\* C7: the stored weight is raw + offset when the raw weight is present and the
\* offset is not zero, and the raw weight as it came (None stays None) otherwise.
C7_Calibration ==
    Stored =>
        IF last.msg.weight_kg # None /\ StoredOffset # 0
        THEN StoredRow.weight_kg = Some(The(last.msg.weight_kg) + StoredOffset)
        ELSE StoredRow.weight_kg = last.msg.weight_kg

\* C7 case: 12.0 kg from a device with offset -0.3 is stored as 11.7 kg
C7_Witness ==
    /\ Stored
    /\ last.msg.weight_kg = Some(120) /\ StoredOffset = -3
    /\ StoredRow.weight_kg = Some(117)

\* bin_full alerts opened while the message just handled was processed
FullOpenedNow == {i \in OpenedNow : alerts[i].alert_type = "bin_full"}

\* C8: a reading stored, without database error, on a container that has no
\* open bin_full alert opens no bin_full alert when fill < 75, exactly one of
\* severity high when 75 <= fill < 90, exactly one of severity critical when
\* fill >= 90.
C8_FillThresholds ==
    (/\ Stored
     /\ last.fails = {}
     /\ last.msg.fill_level # None
     /\ OpenBefore(StoredRow.bin_id, "bin_full") = {})
    => LET fill == The(last.msg.fill_level)
           want == IF fill >= 900 THEN {"critical"}
                   ELSE IF fill >= 750 THEN {"high"} ELSE {}
       IN  /\ Cardinality(FullOpenedNow) = Cardinality(want)
           /\ \A i \in FullOpenedNow : alerts[i].severity \in want

\* C9: when the container of a stored reading with fill >= 75 already has an
\* open bin_full alert, no bin_full alert is added for that container and every
\* alert that existed is left as it was.
C9_NoSecondAlertNoEscalation ==
    [][(/\ last'.op = "message" /\ last'.stored
        /\ last'.msg.fill_level # None
        /\ The(last'.msg.fill_level) >= 750
        /\ OpenAlertExists(alerts, readings'[Len(readings')].bin_id, "bin_full"))
       => /\ \A i \in 1..Len(alerts) : alerts'[i] = alerts[i]
          /\ \A i \in (Len(alerts) + 1)..Len(alerts') :
                ~(/\ alerts'[i].alert_type = "bin_full"
                  /\ alerts'[i].bin_id = readings'[Len(readings')].bin_id)]_vars

\* C9 case: fill 90.0 arrives for a container whose open bin_full alert is high
C9_Witness ==
    /\ Stored
    /\ last.fails = {}
    /\ last.msg.fill_level = Some(900)
    /\ AlertBin(last.msg) = Some(StoredRow.bin_id)
    /\ \E i \in OpenBefore(StoredRow.bin_id, "bin_full") : alerts[i].severity = "high"
    /\ FullOpenedNow = {}

\* two open alerts of one container and kind
DuplicateOpen(i, j) ==
    /\ i < j
    /\ alerts[i].status = "open" /\ alerts[j].status = "open"
    /\ alerts[i].bin_id = alerts[j].bin_id
    /\ alerts[i].alert_type = alerts[j].alert_type

\* C4: with two subscriber instances, two open alerts of one container and kind
\* arise, and only by the race: the call that inserted the later one ran its
\* check before the earlier one was inserted, so both checks found no open alert.
C4_DuplicatesComeFromTheRace ==
    \A i, j \in 1..Len(alerts) : DuplicateOpen(i, j) => alertSeen[j] < i

\* C4 case: two open alerts of one container and kind, each inserted after a
\* check that saw neither
C4_Witness ==
    \E i, j \in 1..Len(alerts) :
        DuplicateOpen(i, j) /\ alertSeen[i] < i /\ alertSeen[j] < i

-----------------------------------------------------------------------------
(* Properties of the registry *)

RegisterHandled == last.op = "register"

\* the hardware address of a DeviceItem does not pass _normalize_mac
Malformed(item) == ~IsMac(Upper(Strip(item.mac_address)))

\* C10: in an authorized batch register call that meets no database error, a
\* malformed hardware address after a good first entry gets a per-entry error
\* and does not fail the call: the answer is HTTP 200 and accounts for every
\* entry, as a result or as an error.
C10_MalformedEntryDoesNotAbort ==
    (/\ RegisterHandled /\ last.authorized /\ last.failAt = 0
     /\ Len(last.devices) > 1
     /\ ~Malformed(last.devices[1]) /\ ActiveBins(last.devices[1].bin_id) # {}
     /\ \E k \in 2..Len(last.devices) : Malformed(last.devices[k]))
    => /\ last.status = 200
       /\ Len(last.results) + Len(last.errors) = Len(last.devices)

\* this step is the API answering a batch register call
RegisterStep == last.op = "idle" /\ last'.op = "register"

\* the state a register call starts its loop on
LoopStart ==
    [sensors |-> sensors, next |-> nextSensorId,
     results |-> <<>>, errors |-> <<>>, status |-> 0]

\* the HTTP status of a call whose loop ends in st
StatusOf(st) == IF st.status = 0 THEN 200 ELSE st.status

\* a well-formed entry whose container is absent or inactive
BadContainer(item) == ~Malformed(item) /\ ActiveBins(item.bin_id) = {}

\* devices with entry k taken out
DropEntry(devices, k) == SubSeq(devices, 1, k - 1) \o SubSeq(devices, k + 1, Len(devices))

\* C11: in a batch register call, an entry whose container is absent or
\* inactive creates or updates no device and stops no other entry: the devices
\* table and the status of the call are what the same call without that entry
\* gives, the other entries are reported just the same, and a call that
\* answers 200 lists one more error, an error for that entry's address.
C11_BadContainerRejectsThatEntryOnly ==
    [][(RegisterStep /\ last'.authorized) =>
         \A k \in 1..Len(last'.devices) :
           BadContainer(last'.devices[k]) =>
             LET failAt == last'.failAt
                 other == RegisterLoop(LoopStart, DropEntry(last'.devices, k), 1,
                                       IF failAt > k THEN failAt - 1
                                       ELSE IF failAt = k THEN 0 ELSE failAt)
             IN  /\ sensors' = other.sensors
                 /\ nextSensorId' = other.next
                 /\ last'.status = StatusOf(other)
                 /\ last'.status = 200 =>
                      /\ last'.results = other.results
                      /\ Len(last'.errors) = Len(other.errors) + 1
                      /\ \E e \in 1..Len(last'.errors) :
                           Some(last'.errors[e].mac) =
                               NormalizeMac(last'.devices[k].mac_address)]_vars

\* C11 witness: a call answered 200 whose first entry was rejected for its
\* container and whose second entry created a device
C11_Witness ==
    /\ RegisterHandled /\ last.authorized /\ last.status = 200
    /\ Len(last.devices) = 2
    /\ BadContainer(last.devices[1])
    /\ Len(last.errors) = 1
    /\ Len(last.results) = 1 /\ last.results[1].action = "created"

\* entry k of the batch is reached by the loop and its write does not raise
Processed(devices, failAt, k) ==
    /\ \A j \in 1..k : ~Malformed(devices[j])
    /\ failAt = 0 \/ failAt > k

\* entry k is the last entry of the batch written for its address
LastFor(devices, failAt, k) ==
    \A j \in (k + 1)..Len(devices) :
        (Processed(devices, failAt, j) /\ ActiveBins(devices[j].bin_id) # {})
            => NormalizeMac(devices[j].mac_address) # NormalizeMac(devices[k].mac_address)

\* C12: a batch register entry for a hardware address already bound to a
\* device updates that device in place: afterwards exactly one row has the
\* address, with the id and the code it had, and with the container, name and
\* offset of the (last such) entry; the call reports the address as "updated"
\* and never as "created"; a batch of such entries only leaves the number of
\* rows as it was.
C12_BoundAddressUpdatedInPlace ==
    [][(RegisterStep /\ last'.authorized) =>
         LET devices == last'.devices
             failAt == last'.failAt
             Bound(k) == /\ Processed(devices, failAt, k)
                         /\ ActiveBins(devices[k].bin_id) # {}
                         /\ RowsByMac(The(NormalizeMac(devices[k].mac_address))) # {}
         IN  /\ \A k \in 1..Len(devices) :
                  Bound(k) =>
                    LET mac == The(NormalizeMac(devices[k].mac_address))
                        after == {r \in sensors' : r.mac_address = Some(mac)}
                    IN  /\ Cardinality(after) = 1
                        /\ \A r \in after :
                             /\ \E old \in RowsByMac(mac) :
                                  /\ old.sensor_id = r.sensor_id
                                  /\ old.sensor_code = r.sensor_code
                             /\ LastFor(devices, failAt, k) =>
                                  /\ r.bin_id = devices[k].bin_id
                                  /\ r.manufacturer = DeviceName(devices[k], mac)
                                  /\ r.weight_offset = Some(devices[k].weight_offset)
                        /\ last'.status = 200 =>
                             /\ \E i \in 1..Len(last'.results) :
                                  /\ last'.results[i].mac = mac
                                  /\ last'.results[i].action = "updated"
                             /\ \A i \in 1..Len(last'.results) :
                                  last'.results[i].mac = mac
                                      => last'.results[i].action = "updated"
             /\ (devices # <<>> /\ \A k \in 1..Len(devices) : Bound(k)) =>
                  /\ Cardinality(sensors') = Cardinality(sensors)
                  /\ nextSensorId' = nextSensorId]_vars

\* C12 witness: the address of device A was registered again, for container 2
\* under the name Hall, and the call reported it as updated
C12_Witness ==
    /\ RegisterHandled /\ last.status = 200
    /\ Len(last.results) = 1 /\ last.results[1].action = "updated"
    /\ last.results[1].mac = MacA
    /\ \E r \in sensors : r.sensor_id = 1 /\ r.bin_id = 2 /\ r.manufacturer = <<"H","a","l","l">>

\* C20: device codes stay unique: no two rows of the devices table have the
\* same code.
C20_CodesUnique ==
    \A r1, r2 \in sensors : r1.sensor_code = r2.sensor_code => r1 = r2

-----------------------------------------------------------------------------
(* Properties of lookup, update and deregistration *)

\* this step is the API answering a call of the kind op
ApiStep(op) == last.op = "idle" /\ last'.op = op

\* the rows of the devices table with the id sensor_id
RowsById(sensor_id) == {r \in sensors : r.sensor_id = sensor_id}

\* C13: deregistering an existing device that has a stored reading leaves its
\* row in place with the hardware address null, and every reading intact;
\* deregistering an existing device with no stored reading removes its row.
\* No other row changes.
C13_DeregisterKeepsHistory ==
    [][(ApiStep("delete") /\ last'.authorized /\ ~last'.dbFails
        /\ RowsById(last'.sensor_id) # {}) =>
         /\ last'.status = 200
         /\ readings' = readings
         /\ IF ReadingCount(last'.sensor_id) > 0
            THEN sensors' = {IF r.sensor_id = last'.sensor_id
                             THEN [r EXCEPT !.mac_address = None] ELSE r : r \in sensors}
                 /\ Cardinality(sensors') = Cardinality(sensors)
            ELSE sensors' = sensors \ RowsById(last'.sensor_id)
                 /\ Cardinality(sensors') = Cardinality(sensors) - 1]_vars

\* C13 witness: a device that had the address of A and a stored reading was
\* deregistered: its row is there without an address, the reading is there
C13_Witness ==
    /\ last.op = "delete" /\ last.status = 200
    /\ ReadingCount(last.sensor_id) > 0
    /\ \E r \in sensors : r.sensor_id = last.sensor_id /\ r.mac_address = None
    /\ RowsByMac(MacA) = {}

\* the request is an update the API authenticated, for a device that is there
\* and with a well-formed address
UpdateReached ==
    /\ ApiStep("update") /\ last'.authorized
    /\ ~Malformed(last'.body)
    /\ RowsById(last'.sensor_id) # {}

\* C14: an update of device D with a hardware address a different device owns
\* is rejected and changes no field of any device; an update with D's own
\* address is accepted; an accepted update sets address, container, name and
\* offset of D in one step and changes no other device, and an update that is
\* not accepted changes nothing.
C14_UpdateChecksOwnerThenSetsAll ==
    [][ApiStep("update") =>
         LET mac == NormalizeMac(last'.body.mac_address)
             id == last'.sensor_id
         IN  /\ (UpdateReached /\ \E r \in sensors : r.mac_address = mac /\ r.sensor_id # id)
                  => last'.status = 409 /\ sensors' = sensors
             /\ (UpdateReached /\ ~last'.dbFails
                 /\ \A r \in RowsById(id) : r.mac_address = mac)
                  => last'.status = 200
             /\ last'.status = 200 =>
                  sensors' = {IF r.sensor_id = id
                              THEN [r EXCEPT !.mac_address = mac,
                                             !.bin_id = last'.body.bin_id,
                                             !.manufacturer = Strip(last'.body.device_name),
                                             !.weight_offset = Some(last'.body.weight_offset)]
                              ELSE r : r \in sensors}
             /\ last'.status # 200 => sensors' = sensors]_vars

\* C14 witness: an update asked for the address another device owns and was
\* answered 409
C14_Witness ==
    /\ last.op = "update" /\ last.authorized /\ last.status = 409
    /\ \E r \in sensors :
         r.mac_address = NormalizeMac(last.body.mac_address) /\ r.sensor_id # last.sensor_id
    /\ RowsById(last.sensor_id) # {}

\* C15 as stated: every update or delete call (that the API authenticated) for
\* a device id no device has is answered not-found and changes nothing.
C15_AbsentIdAlwaysNotFound ==
    [][((ApiStep("update") \/ ApiStep("delete")) /\ last'.authorized
        /\ RowsById(last'.sensor_id) = {}) =>
         last'.status = 404 /\ sensors' = sensors /\ readings' = readings]_vars

\* C15 amended: an authenticated delete call, and an authenticated update call
\* whose hardware address is well formed, for a device id no device has is
\* answered not-found (404, neither 400 nor 409) and changes nothing; an
\* authenticated update call with a malformed address is answered 400 and
\* changes nothing, whatever its device id.
C15_AbsentIdNotFoundAfterValidation ==
    [][/\ (/\ ApiStep("update") \/ ApiStep("delete")
           /\ last'.authorized
           /\ RowsById(last'.sensor_id) = {}
           /\ ApiStep("update") => ~Malformed(last'.body))
          => (/\ last'.status = 404 /\ last'.status \notin {400, 409}
              /\ sensors' = sensors /\ readings' = readings)
       /\ (ApiStep("update") /\ last'.authorized /\ Malformed(last'.body))
          => (last'.status = 400 /\ sensors' = sensors /\ readings' = readings)]_vars

\* C15 witness: an authenticated delete of device id 4, which no device has,
\* was answered 404
C15_Witness ==
    /\ last.op = "delete" /\ last.authorized /\ last.status = 404
    /\ RowsById(last.sensor_id) = {}

\* the rows of the devices table a lookup of mac is about
Registered(mac) == {r \in sensors : r.mac_address = Some(Upper(Strip(mac)))}

-----------------------------------------------------------------------------
(* Properties of failures during ingestion *)

\* C17: when persisting the reading of a message fails, no reading of that
\* message is visible, no alert is evaluated for it and nothing is retried:
\* the three tables are as they were before the message, and they still are
\* when the subscriber takes the next message, which is therefore resolved and
\* stored as if the failed message had never arrived.
C17_FailedReadingRolledBack ==
    [][/\ (last.op = "idle" /\ last'.op = "message" /\ "reading" \in last'.fails)
          => (/\ ~last'.stored
              /\ readings' = readings /\ alerts' = alerts /\ sensors' = sensors)
       /\ (last.op = "message" /\ "reading" \in last.fails /\ last'.op = "idle")
          => (/\ readings' = readings /\ alerts' = alerts /\ sensors' = sensors
              /\ last' = Idle)]_vars

\* C17 witness: after one reading was stored, the INSERT of the next message,
\* from a known device with fill 90.0, raised
C17_Witness ==
    /\ Handled /\ "reading" \in last.fails /\ ~last.stored
    /\ Len(readings) = 1
    /\ MacMatches(last.msg) # {}
    /\ last.msg.fill_level = Some(900)

\* C19: the alert rules of one reading are isolated: whichever _create_alert
\* calls of a stored reading fail, every rule of the reading whose own call
\* does not fail has its alert - one that was open before, or one opened now.
C19_RulesIsolated ==
    (Stored /\ AlertBin(last.msg) # None) =>
        \A k \in 1..Len(AlertRules(last.msg)) :
            LET rule == AlertRules(last.msg)[k]
                bin == The(AlertBin(last.msg))
            IN  rule.alert_type \notin last.fails =>
                  \/ OpenBefore(bin, rule.alert_type) # {}
                  \/ \E i \in OpenedNow :
                       /\ alerts[i].bin_id = bin
                       /\ alerts[i].alert_type = rule.alert_type
                       /\ alerts[i].severity = rule.severity
                       /\ alerts[i].status = "open"

\* C19 witness: the bin_full alert of a reading failed and its sensor_fault
\* and unusual_activity alerts were opened
C19_Witness ==
    /\ Stored /\ last.fails = {"bin_full"}
    /\ {alerts[i].alert_type : i \in OpenedNow} = {"sensor_fault", "unusual_activity"}

\* C18: no failure is fatal to the subscriber: whatever the outcome of a
\* delivered message, its processing finishes and the subscriber is back
\* waiting for, and then takes, the next delivered message.
C18_EveryMessageFinishes ==
    (last.op = "message") ~> (last.op = "idle")

\* C18 witness: a message whose reading could not be persisted has been handled
\* after a message that was stored and whose alert could not be persisted
C18_Witness ==
    /\ Handled /\ "reading" \in last.fails
    /\ Len(readings) = 1 /\ alerts = <<>>
    /\ AlertRules(last.msg) # <<>>

-----------------------------------------------------------------------------
(* Properties of resolution, rules and dropped messages *)

\* the weight the payload of the message just stored carries, calibrated with
\* the offset of device row s
CalibratedBy(s) ==
    IF last.msg.weight_kg = None \/ OffsetOf(s) = 0 THEN last.msg.weight_kg
    ELSE Some(The(last.msg.weight_kg) + OffsetOf(s))

\* C25: identity resolution is ordered, first match wins: a stored reading
\* whose hardware address matches a device has that device's id and is
\* calibrated with that device's offset, whatever device its code matches; a
\* stored reading whose address is absent or matches no device has the id and
\* the offset of the device its code matches.
C25_AddressBeforeCode ==
    Stored =>
        /\ MacMatches(last.msg) # {} =>
             \E s \in MacMatches(last.msg) :
                 /\ StoredRow.sensor_id = s.sensor_id
                 /\ StoredRow.weight_kg = CalibratedBy(s)
        /\ MacMatches(last.msg) = {} =>
             \E s \in CodeMatches(last.msg) :
                 /\ StoredRow.sensor_id = s.sensor_id
                 /\ StoredRow.weight_kg = CalibratedBy(s)

\* C25 witness: a reading with the address of A and the code of B was stored
\* for A, with A's offset
C25_Witness ==
    /\ Stored
    /\ \E s \in MacMatches(last.msg) : s.sensor_id = 1
    /\ \E s \in CodeMatches(last.msg) : s.sensor_id = 2
    /\ StoredRow.sensor_id = 1
    /\ StoredRow.weight_kg = Some(117)

\* the alerts of a kind that the message just handled opened on the container
\* of its stored reading
OpenedOfKind(alert_type) ==
    {i \in OpenedNow : alerts[i].alert_type = alert_type /\ alerts[i].bin_id = StoredRow.bin_id}

\* C26: the rules of different kinds are evaluated independently for each
\* stored reading: without database error, on a container with no open alert,
\* battery < 20 opens one medium sensor_fault alert and temperature > 45 one
\* high unusual_activity alert whatever the fill is, battery >= 20 and
\* temperature <= 45 open none, and a reading that breaches all three rules
\* opens three alerts, one per kind.
C26_KindsIndependent ==
    (/\ Stored /\ last.fails = {}
     /\ \A t \in {"bin_full", "sensor_fault", "unusual_activity"} :
            OpenBefore(StoredRow.bin_id, t) = {})
    => LET battery == The(GetOr(last.msg, "battery_level", last.msg.battery_level,
                                DefaultBattery))
           temperature == The(GetOr(last.msg, "temperature_c", last.msg.temperature_c,
                                    DefaultTemp))
           fill == The(GetOr(last.msg, "fill_level", last.msg.fill_level, DefaultFill))
       IN  /\ Cardinality(OpenedOfKind("sensor_fault")) = IF battery < 200 THEN 1 ELSE 0
           /\ \A i \in OpenedOfKind("sensor_fault") : alerts[i].severity = "medium"
           /\ Cardinality(OpenedOfKind("unusual_activity")) = IF temperature > 450 THEN 1 ELSE 0
           /\ \A i \in OpenedOfKind("unusual_activity") : alerts[i].severity = "high"
           /\ (battery < 200 /\ temperature > 450 /\ fill >= 750) =>
                  Cardinality(OpenedNow) = 3

\* the kinds of alert
AlertTypes == {"bin_full", "sensor_fault", "unusual_activity"}

\* C27: alerts follow stored readings: the alerts table grows only in a step
\* that handles a message and stores its reading; every alert inserted has
\* status open; and when alerts of a message cannot be persisted while its
\* reading could, the reading is stored and stays.
C27_AlertsFollowStoredReadings ==
    [][/\ alerts' # alerts =>
            /\ last'.op = "message" /\ last'.stored
            /\ Len(readings') = Len(readings) + 1
            /\ SubSeq(alerts', 1, Len(alerts)) = alerts
            /\ \A i \in (Len(alerts) + 1)..Len(alerts') : alerts'[i].status = "open"
       /\ (last'.op = "message" /\ last.op = "idle"
           /\ last'.fails \cap AlertTypes # {})
            => (/\ last'.stored
                /\ Len(readings') = Len(readings) + 1
                /\ SubSeq(readings', 1, Len(readings)) = readings
                /\ \A i \in (Len(alerts) + 1)..Len(alerts') :
                       alerts'[i].alert_type \notin last'.fails)
       /\ (last.op = "message" /\ last'.op = "idle") => readings' = readings]_vars

\* C27 witness: the reading of a message was stored, its bin_full alert could
\* not be persisted, its sensor_fault alert was
C27_Witness ==
    /\ Stored /\ "bin_full" \in last.fails /\ "sensor_fault" \notin last.fails
    /\ \E i \in OpenedNow : alerts[i].alert_type = "sensor_fault"
    /\ \A i \in OpenedNow : alerts[i].alert_type # "bin_full"
    /\ readings[Len(readings)].fill_level = Some(900)

\* C28: a message whose payload does not parse to a JSON object is dropped: it
\* stores no reading, opens no alert and leaves the three tables as they were,
\* and they still are when the subscriber takes the next message.
C28_UnparsedMessageDropped ==
    [][/\ (last.op = "idle" /\ last'.op = "message" /\ last'.msg.kind # "object")
          => (/\ ~last'.stored
              /\ readings' = readings /\ alerts' = alerts /\ sensors' = sensors)
       /\ (last.op = "message" /\ last.msg.kind # "object" /\ last'.op = "idle")
          => (/\ readings' = readings /\ alerts' = alerts /\ sensors' = sensors
              /\ last' = Idle)]_vars

\* C28 witness: a payload of a known device that is no JSON document was
\* handled after a well-formed message had been stored
C28_Witness ==
    /\ Handled /\ last.msg.kind = "badjson" /\ ~last.stored
    /\ MacMatches(last.msg) # {}
    /\ Len(readings) = 1

-----------------------------------------------------------------------------
(* Properties of the processing order *)

\* C24: within one subscriber instance no two messages are in processing at
\* the same time: while an instance is between the store of a message and the
\* last of its alert steps, every reading that is stored is stored by another
\* instance - the instance's own position moves only by its own alert steps,
\* which store nothing, and ends in waiting before it stores again.
C24_OneMessageAtATime ==
    [][\A i \in Instances :
         subs[i].pc # "idle" =>
           /\ readings' # readings => subs'[i] = subs[i]
           /\ subs'[i] # subs[i] =>
                /\ readings' = readings
                /\ subs'[i].bin_id = subs[i].bin_id
                /\ \/ subs'[i].pc = "insert" /\ subs'[i].rules = subs[i].rules
                   \/ subs'[i].rules = Tail(subs[i].rules)]_vars

\* C24 witness: instance 1 is about to insert the second alert of its message
\* while both readings are stored and instance 2 is at the alerts of its own
C24_Witness ==
    /\ subs[1].pc = "insert" /\ Len(subs[1].rules) = 2
    /\ subs[2].pc = "select"
    /\ Len(readings) = 2

\* C29: dedup considers only alerts with status open: a stored reading that
\* breaches a rule, for a container that has no open alert of that kind -
\* resolved ones or none - opens a new open alert of the kind (unless the
\* database fails on it), and no step changes or removes a resolved alert.
C29_DedupOnlyAmongOpen ==
    [][/\ \A i \in 1..Len(alerts) :
            alerts[i].status = "resolved" => (Len(alerts') >= i /\ alerts'[i] = alerts[i])
       /\ (last.op = "idle" /\ last'.op = "message" /\ last'.stored
           /\ AlertBin(last'.msg) # None) =>
            \A k \in 1..Len(AlertRules(last'.msg)) :
                LET rule == AlertRules(last'.msg)[k]
                    bin == The(AlertBin(last'.msg))
                IN  (/\ rule.alert_type \notin last'.fails
                     /\ ~\E i \in 1..Len(alerts) :
                            /\ alerts[i].bin_id = bin
                            /\ alerts[i].alert_type = rule.alert_type
                            /\ alerts[i].status = "open")
                    => \E j \in (Len(alerts) + 1)..Len(alerts') :
                            /\ alerts'[j].bin_id = bin
                            /\ alerts'[j].alert_type = rule.alert_type
                            /\ alerts'[j].severity = rule.severity
                            /\ alerts'[j].status = "open"]_vars

\* C29 witness: the bin_full alert of container 1 was resolved, and the next
\* reading with fill 90.0 opened a new one
C29_Witness ==
    /\ Stored
    /\ \E i \in 1..last.alerts_before, j \in OpenedNow :
         /\ alerts[i].status = "resolved"
         /\ alerts[i].alert_type = "bin_full" /\ alerts[j].alert_type = "bin_full"
         /\ alerts[i].bin_id = alerts[j].bin_id
         /\ alerts[j].status = "open"

-----------------------------------------------------------------------------
(* Properties of the subscriber and the API together *)

\* the calls of the device registry
RegistryOps == {"register", "update", "delete", "lookup"}

\* C23: readings are immutable: no step of the subscriber or of the API
\* (a message processed, alerts opened, a batch register, an update, a
\* deregistration, a lookup) changes or removes a stored reading; the stored
\* readings only grow.
C23_ReadingsImmutable ==
    [][ /\ Len(readings') >= Len(readings)
        /\ \A i \in 1..Len(readings) : readings'[i] = readings[i] ]_vars

\* a device with a stored reading has just been deregistered, after a second
\* message was stored
C23_Witness ==
    /\ last.op = "delete" /\ last.status = 200
    /\ ReadingCount(last.sensor_id) > 0
    /\ Len(readings) = 2
    /\ \E a \in 1..Len(alerts) : alerts[a].bin_id = readings[1].bin_id

\* C21: after any sequence of batch register, update and delete calls, one at
\* a time, no two device rows hold the same non-null hardware address.
C21_AddressesUnique ==
    \A r1 \in sensors : \A r2 \in sensors :
        (r1.mac_address # None /\ r1.mac_address = r2.mac_address) => r1 = r2

\* an update has just given a device an address, after a batch register
\* created a device and a deregistration left a row without address
C21_Witness ==
    /\ last.op = "update" /\ last.status = 200
    /\ \E r \in sensors : r.sensor_id = last.sensor_id /\ r.mac_address # None
    /\ \E r \in sensors : r.sensor_id >= 4
    /\ \E r \in sensors : r.sensor_id # 2 /\ r.mac_address = None

\* the devices that hold the hardware address of the payload msg
HoldersOf(msg) ==
    IF msg.mac_address = None THEN {}
    ELSE {s \in sensors : s.mac_address = Some(Upper(Strip(The(msg.mac_address))))}

\* the weight of the payload msg less the offset of the device s
WeightBy(msg, s) ==
    IF msg.weight_kg = None \/ OffsetOf(s) = 0 THEN msg.weight_kg
    ELSE Some(The(msg.weight_kg) + OffsetOf(s))

\* C30: ingestion keeps no cached registry state: a message processed after
\* a registry call completed is stored under the container and with the offset
\* that the registry holds for its address at that moment, and a registry call
\* leaves the readings stored earlier as they are.
C30_NoCachedRegistry ==
    [][ /\ (last.op = "idle" /\ last'.op = "message" /\ last'.stored) =>
              \A s \in HoldersOf(last'.msg) :
                  /\ readings'[Len(readings')].bin_id = s.bin_id
                  /\ readings'[Len(readings')].weight_kg = WeightBy(last'.msg, s)
        /\ (last'.op \in RegistryOps /\ last.op = "idle") => readings' = readings
      ]_vars

\* the address of A was re-pointed from container 1 (offset -0.3) to
\* container 2 (offset 0.5) between two of its messages
C30_Witness ==
    /\ Stored /\ Len(readings) = 2
    /\ readings[1].bin_id = 1 /\ readings[1].weight_kg = Some(117)
    /\ readings[2].bin_id = 2 /\ readings[2].weight_kg = Some(125)
    /\ readings[1].sensor_id = readings[2].sensor_id

-----------------------------------------------------------------------------
(* Properties of concurrent register calls *)

\* the record of the existence check of the call that created the device row r
CheckOf(r) == {e \in {regSeen[i] : i \in 1..Len(regSeen)} : e.sensor_id = r.sensor_id}

\* two device rows that hold the same hardware address
SameAddress(r1, r2) ==
    r1.sensor_id < r2.sensor_id /\ r1.mac_address # None
    /\ r1.mac_address = r2.mac_address

\* C22: two register calls for the same unregistered hardware address that
\* run side by side can both find it unregistered and both create a device,
\* so two devices with the same address are reachable; and two devices get
\* the same address only that way: the later device's call looked for the
\* address before the earlier device was inserted.
C22_DuplicatesComeFromTheRace ==
    \A r1 \in sensors : \A r2 \in sensors :
        SameAddress(r1, r2) =>
            \E e \in CheckOf(r2) : e.seen <= r1.sensor_id

\* two devices with the same address, created by calls of different workers
\* that both looked before either inserted
C22_Witness ==
    \E r1 \in sensors : \E r2 \in sensors :
        /\ SameAddress(r1, r2)
        /\ \E e1 \in CheckOf(r1) : \E e2 \in CheckOf(r2) :
              /\ e1.worker # e2.worker
              /\ e1.seen <= r1.sensor_id /\ e2.seen <= r1.sensor_id

-----------------------------------------------------------------------------
(* Properties of ingestion and the registry, continued *)

\* C31: the payload's container id is optional for a registered hardware
\* address: a message with a registered address and no container id is stored
\* under the registration's container and the threshold rules are evaluated
\* for it, so, without database error, fill >= 90 opens a critical bin_full
\* alert on that container when none is open.
C31_ContainerIdOptional ==
    (/\ Handled /\ Accepted(last.msg) /\ last.fails = {}
     /\ last.msg.bin_id = None
     /\ MacMatches(last.msg) # {})
    => /\ Stored
       /\ \A s \in MacMatches(last.msg) : StoredRow.bin_id = s.bin_id
       /\ (/\ last.msg.fill_level # None
           /\ The(last.msg.fill_level) >= 900
           /\ OpenBefore(StoredRow.bin_id, "bin_full") = {})
          => \E i \in OpenedNow :
                 /\ alerts[i].bin_id = StoredRow.bin_id
                 /\ alerts[i].alert_type = "bin_full"
                 /\ alerts[i].severity = "critical"

\* the payload of a device that publishes under the hardware address mac
Carrying(mac) == Msg(Some(mac), None, None, None, None, None, None, None)

\* what the Identity Resolver makes of a message that carries mac, for each
\* row its SELECT by address can fetch
ResolvedByAddress(mac) ==
    { ResolveDevice(Carrying(mac), Upper(Strip(mac)), macRow, None) :
        macRow \in MacFetch(Carrying(mac)) }

\* C32: boot-time lookup and ingestion agree on who is registered: in every
\* registry state and for every hardware address, an answered lookup says
\* registered = true exactly when the Identity Resolver resolves a message
\* with that address by address match, and then both give the same device id,
\* container id and calibration offset.
C32_LookupAgreesWithResolver ==
    (last.op = "lookup" /\ last.status = 200) =>
        /\ last.registered <=> \E res \in ResolvedByAddress(last.mac) : res.via = "mac"
        /\ last.registered =>
              \E res \in ResolvedByAddress(last.mac) :
                  /\ res.via = "mac"
                  /\ The(last.row).sensor_id = The(res.sensor).sensor_id
                  /\ Some(The(last.row).bin_id) = res.bin_id
                  /\ The(last.row).weight_offset = OffsetOf(The(res.sensor))

\* the hardware addresses that identify a device in the registry rows
Held(rows) == {r.mac_address : r \in {x \in rows : x.mac_address # None}}

\* the hardware address of the payload msg, as the subscriber looks for it
AddressOf(msg) == Some(Upper(Strip(The(msg.mac_address))))

\* the rows whose device code is the code of the payload msg
CodeRows(rows, msg) ==
    IF msg.sensor_code = None THEN {}
    ELSE {r \in rows : r.sensor_code = The(msg.sensor_code)}

\* C33: after a device has been deregistered its former hardware address
\* identifies no device; no call but a register or an update binds an address
\* again; and a message with an address that identifies no device is never
\* stored under an address match: it is rejected as unknown device, unless
\* its device code is that of a row that still exists, and then it is stored
\* for that row.
C33_DeregisteredAddressUnbound ==
    [][ /\ (ApiStep("delete") /\ last'.status = 200) =>
              \A r \in RowsById(last'.sensor_id) : r.mac_address \notin Held(sensors')
        /\ (~ApiStep("register") /\ ~ApiStep("update")) => Held(sensors') \subseteq Held(sensors)
        /\ (/\ last.op = "idle" /\ last'.op = "message"
            /\ last'.msg.mac_address # None
            /\ AddressOf(last'.msg) \notin Held(sensors)) =>
              /\ last'.stored =>
                    \E r \in CodeRows(sensors, last'.msg) :
                        /\ readings'[Len(readings')].sensor_id = r.sensor_id
                        /\ Some(readings'[Len(readings')].bin_id) = ParseInt(last'.msg.bin_id)
              /\ CodeRows(sensors, last'.msg) = {} =>
                    /\ ~last'.stored
                    /\ readings' = readings /\ alerts' = alerts
      ]_vars

\* A was deregistered after a reading of it was stored, its row is left
\* without address, and its next message, which carries no device code, has
\* just been rejected
C33_Witness ==
    /\ last.op = "message" /\ ~last.stored
    /\ last.msg.mac_address = Some(MacALoose) /\ last.msg.sensor_code = None
    /\ Some(MacA) \notin Held(sensors)
    /\ \E r \in sensors : r.sensor_id = 1 /\ r.mac_address = None
    /\ Len(readings) >= 1

\* C34: every stored reading references a device row that exists, in every
\* reachable state of any interleaving of message processing with deregister
\* calls.
C34_ReadingsReferenceDevices ==
    \A i \in 1..Len(readings) : \E r \in sensors : r.sensor_id = readings[i].sensor_id

\* what the loop of a register call makes of the first n entries of devices
\* alone, the write of entry failAt raising
Upto(devices, n, failAt) == RegisterLoop(LoopStart, SubSeq(devices, 1, n), 1, failAt)

\* entry f is the one that ends the call with an error: the entries before it
\* go through, and it is malformed or its write raises
EndsCall(devices, failAt, f) ==
    /\ Upto(devices, f - 1, 0).status = 0
    /\ Upto(devices, f, IF failAt = f THEN f ELSE 0).status # 0

\* C35: batch register commits entry by entry: when an entry makes the whole
\* call end with an error, the devices table is what the entries before it
\* made of it, so the devices they created or updated remain in the registry.
C35_EarlierEntriesStay ==
    [][(RegisterStep /\ last'.authorized /\ last'.status # 200
        /\ last'.devices # <<>>) =>
         \E f \in 1..Len(last'.devices) :
            /\ EndsCall(last'.devices, last'.failAt, f)
            /\ sensors' = Upto(last'.devices, f - 1, 0).sensors
            /\ \A j \in 1..(f - 1) :
                 (~Malformed(last'.devices[j]) /\ ActiveBins(last'.devices[j].bin_id) # {})
                 => \E r \in sensors' :
                        r.mac_address = NormalizeMac(last'.devices[j].mac_address)]_vars

\* a call of two entries has ended with an error at its second entry, and the
\* device its first entry created is in the registry
C35_Witness ==
    /\ RegisterHandled /\ last.authorized /\ last.status # 200
    /\ Len(last.devices) = 2
    /\ ~Malformed(last.devices[1])
    /\ \E r \in sensors :
         /\ r.sensor_id >= 4
         /\ r.mac_address = NormalizeMac(last.devices[1].mac_address)
         /\ r.bin_id = last.devices[1].bin_id

\* C36: every device row references an existing container: after any sequence
\* of batch register, update and delete calls no device's container reference
\* names a container that waste_bins does not have.
C36_DevicesReferenceContainers ==
    \A r \in sensors : \E b \in WasteBins : b.bin_id = r.bin_id

\* the calls that change the registry
MutatingOps == {"register", "update", "delete"}

\* the token has a session that login issued, that was not logged out and has
\* not expired
ValidSession(token) == [token |-> token, expired |-> FALSE] \in sessions

\* C37: registry mutations are gated by a valid session: a batch register,
\* update or delete call with no token, with a token login never issued, with
\* a token that was logged out or with an expired token is answered 401
\* whatever else it asks for, and leaves devices, readings and alerts
\* unchanged; only a login makes a token valid; a lookup is answered without
\* a session.
C37_MutationsNeedSession ==
    [][ /\ (last.op = "idle" /\ last'.op \in MutatingOps /\ ~ValidSession(last'.token)) =>
              /\ last'.status = 401
              /\ UNCHANGED <<sensors, readings, alerts, nextSensorId>>
        /\ (last.op = "idle" /\ last'.op \in MutatingOps /\ ValidSession(last'.token)) =>
              last'.status # 401
        /\ \A t \in RequestTokens :
              (~ValidSession(t) /\ ValidSession(t)') =>
                  /\ t \in Tokens /\ last' = last
                  /\ UNCHANGED <<sensors, readings, alerts, nextSensorId>>
        /\ (ApiStep("lookup") /\ ~last'.dbFails) => last'.status = 200
      ]_vars

\* a delete call for device A, which has a stored reading, made with the
\* token of a session that is gone, has just been answered 401, and A is
\* still registered
C37_Witness ==
    /\ last.op = "delete" /\ last.status = 401 /\ last.token = "t1"
    /\ last.sensor_id = 1 /\ ReadingCount(1) > 0
    /\ \E r \in sensors : r.sensor_id = 1 /\ r.mac_address = Some(MacA)
====
